---------------------------- MODULE Spec2Model ----------------------------
(***************************************************************************)
(* Model of the Synta front end (src/backend): the lexer                   *)
(* (lexer/lexer.go), the token tables (package token, whose text is found  *)
(* in main.go) and the recursive-descent parser                            *)
(* (parser/parser.go).                                                     *)
(*                                                                         *)
(* A source text is a sequence of one-character strings.  A token is a     *)
(* record [Type, Lexeme, Line, Column]; token kinds carry the names of the *)
(* Go constants.  An AST node is a record with a "kind" field; every       *)
(* allocation (&T{...} in the Go code) receives a fresh "id", which stands *)
(* for the address of the allocated object.                                *)
(***************************************************************************)
EXTENDS Integers, Sequences, FiniteSets, TLC

VARIABLES
    phase,      \* "lex" | "parse" | "done": where the analysis stands
    lex,        \* the Lexer object: [input, pos, line, column, tokens]
    par,        \* the Parser object: [tokens, pos, errors, nid]
    program,    \* Program.Statements built so far by Parse
    spans,      \* ghost: <<start, end>> offsets of each emitted token
    iters,      \* ghost: iterations of the running main loop so far
    shared,     \* the package-level tables read by every instance
    insts       \* the concurrently running analyses (SpecConc)

vars == <<phase, lex, par, program, spans, iters, shared, insts>>

(***************************************************************************)
(* Characters                                                              *)
(***************************************************************************)
NUL == "NUL"   \* the zero byte that peek returns past the end of input

Letters ==
    {"a", "b", "c", "d", "e", "f", "g", "h", "i", "j", "k", "l", "m", "n",
     "o", "p", "q", "r", "s", "t", "u", "v", "w", "x", "y", "z",
     "A", "B", "C", "D", "E", "F", "G", "H", "I", "J", "K", "L", "M", "N",
     "O", "P", "Q", "R", "S", "T", "U", "V", "W", "X", "Y", "Z"}

Digits == {"0", "1", "2", "3", "4", "5", "6", "7", "8", "9"}

\* unicode.IsSpace on a byte: the ASCII blanks (the model has no "\v")
SpaceChars == {" ", "\t", "\r", "\f", "\n"}

IsLetter(ch) == ch \in Letters
IsDigit(ch) == ch \in Digits
IsSpace(ch) == ch \in SpaceChars

(***************************************************************************)
(* package token                                                           *)
(***************************************************************************)
Keywords ==
    [w \in {"true", "false", "null", "if", "elif", "else", "while", "for",
            "switch", "match", "case", "default", "return", "break",
            "continue", "bind", "const", "craft", "use", "as", "from", "fn",
            "struct", "try", "catch", "raise", "type", "cast", "any", "none",
            "trait", "int", "float", "char", "bool", "str", "Map", "async",
            "await", "emit", "listen", "dispatch", "merge", "task",
            "concurrent", "stage", "gather", "allow", "pseudo", "read",
            "write", "print", "log", "save", "flow", "context", "memory",
            "debug", "checkpoint", "breakpoint", "trace", "assert",
            "configure", "generate_report", "think", "ask", "prompt",
            "adapt", "call_api", "train", "evaluate", "reason", "observe",
            "with", "then", "defer", "pipe", "pass", "through", "range",
            "strategy", "timeout", "window", "alert_threshold", "own",
            "move", "drop", "let", "pub", "priv", "global", "unsafe", "raw",
            "future", "macro", "delegate", "route", "compose", "inspect",
            "create_pool", "max_workers", "submit", "submit_delayed", "join",
            "now", "execution_time", "Report", "do", "please", "maybe",
            "loop", "guard", "watch", "on", "snapshot", "restore", "input",
            "action", "execution", "retry", "enabled", "max", "depends_on",
            "config", "outputs", "breakpoints", "on_concurrency_deadlock",
            "on_loop", "on_timeout"} |->
       CASE w = "true" -> "TRUE" [] w = "false" -> "FALSE"
         [] w = "null" -> "NULL" [] w = "if" -> "IF" [] w = "elif" -> "ELIF"
         [] w = "else" -> "ELSE" [] w = "while" -> "WHILE"
         [] w = "for" -> "FOR" [] w = "switch" -> "SWITCH"
         [] w = "match" -> "MATCH" [] w = "case" -> "CASE"
         [] w = "default" -> "DEFAULT" [] w = "return" -> "RETURN"
         [] w = "break" -> "BREAK" [] w = "continue" -> "CONTINUE"
         [] w = "bind" -> "BIND" [] w = "const" -> "CONST"
         [] w = "craft" -> "CRAFT" [] w = "use" -> "USE" [] w = "as" -> "AS"
         [] w = "from" -> "FROM" [] w = "fn" -> "FN"
         [] w = "struct" -> "STRUCT" [] w = "try" -> "TRY"
         [] w = "catch" -> "CATCH" [] w = "raise" -> "RAISE"
         [] w = "type" -> "TYPE" [] w = "cast" -> "CAST" [] w = "any" -> "ANY"
         [] w = "none" -> "NONE" [] w = "trait" -> "TRAIT"
         [] w = "int" -> "INT_TYPE" [] w = "float" -> "FLOAT_TYPE"
         [] w = "char" -> "CHAR_TYPE" [] w = "bool" -> "BOOL_TYPE"
         [] w = "str" -> "STR_TYPE" [] w = "Map" -> "MAP_TYPE"
         [] w = "async" -> "ASYNC" [] w = "await" -> "AWAIT"
         [] w = "emit" -> "EMIT" [] w = "listen" -> "LISTEN"
         [] w = "dispatch" -> "DISPATCH" [] w = "merge" -> "MERGE"
         [] w = "task" -> "TASK" [] w = "concurrent" -> "CONCURRENT"
         [] w = "stage" -> "STAGE" [] w = "gather" -> "GATHER"
         [] w = "allow" -> "ALLOW" [] w = "pseudo" -> "PSEUDO"
         [] w = "read" -> "READ" [] w = "write" -> "WRITE"
         [] w = "print" -> "PRINT" [] w = "log" -> "LOG"
         [] w = "save" -> "SAVE" [] w = "flow" -> "FLOW"
         [] w = "context" -> "CONTEXT" [] w = "memory" -> "MEMORY"
         [] w = "debug" -> "DEBUG" [] w = "checkpoint" -> "CHECKPOINT"
         [] w = "breakpoint" -> "BREAKPOINT" [] w = "trace" -> "TRACE"
         [] w = "assert" -> "ASSERT" [] w = "configure" -> "CONFIGURE"
         [] w = "generate_report" -> "GENERATE_REPORT"
         [] w = "think" -> "THINK" [] w = "ask" -> "ASK"
         [] w = "prompt" -> "PROMPT" [] w = "adapt" -> "ADAPT"
         [] w = "call_api" -> "CALL_API" [] w = "train" -> "TRAIN"
         [] w = "evaluate" -> "EVALUATE" [] w = "reason" -> "REASON"
         [] w = "observe" -> "OBSERVE" [] w = "with" -> "WITH"
         [] w = "then" -> "THEN" [] w = "defer" -> "DEFER"
         [] w = "pipe" -> "PIPE" [] w = "pass" -> "PASS"
         [] w = "through" -> "THROUGH" [] w = "range" -> "RANGE"
         [] w = "strategy" -> "STRATEGY" [] w = "timeout" -> "TIMEOUT"
         [] w = "window" -> "WINDOW"
         [] w = "alert_threshold" -> "ALERT_THRESHOLD"
         [] w = "own" -> "OWN" [] w = "move" -> "MOVE" [] w = "drop" -> "DROP"
         [] w = "let" -> "LET" [] w = "pub" -> "PUB" [] w = "priv" -> "PRIV"
         [] w = "global" -> "GLOBAL" [] w = "unsafe" -> "UNSAFE"
         [] w = "raw" -> "RAW" [] w = "future" -> "FUTURE"
         [] w = "macro" -> "MACRO" [] w = "delegate" -> "DELEGATE"
         [] w = "route" -> "ROUTE" [] w = "compose" -> "COMPOSE"
         [] w = "inspect" -> "INSPECT" [] w = "create_pool" -> "CREATE_POOL"
         [] w = "max_workers" -> "MAX_WORKERS" [] w = "submit" -> "SUBMIT"
         [] w = "submit_delayed" -> "SUBMIT_DELAYED" [] w = "join" -> "JOIN"
         [] w = "now" -> "NOW" [] w = "execution_time" -> "EXECUTION_TIME"
         [] w = "Report" -> "REPORT" [] w = "do" -> "DO"
         [] w = "please" -> "PLEASE" [] w = "maybe" -> "MAYBE"
         [] w = "loop" -> "LOOP" [] w = "guard" -> "GUARD"
         [] w = "watch" -> "WATCH" [] w = "on" -> "ON"
         [] w = "snapshot" -> "SNAPSHOT" [] w = "restore" -> "RESTORE"
         [] w = "input" -> "INPUT" [] w = "action" -> "ACTION"
         [] w = "execution" -> "EXECUTION" [] w = "retry" -> "RETRY"
         [] w = "enabled" -> "ENABLED" [] w = "max" -> "MAX"
         [] w = "depends_on" -> "DEPENDS_ON" [] w = "config" -> "CONFIG"
         [] w = "outputs" -> "OUTPUTS" [] w = "breakpoints" -> "BREAKPOINTS"
         [] w = "on_concurrency_deadlock" -> "ON_CONCUR_DEADLOCK"
         [] w = "on_loop" -> "ON_LOOP" [] w = "on_timeout" -> "ON_TIMEOUT"]

\* Context-sensitive spellings, reserved only inside agent/task bodies
AgentSystemKeywords ==
    [w \in {"Agent", "Core", "model", "mode", "role", "tools", "sys_prompt",
            "max_concurrent_requests", "retry_policy"} |->
       CASE w = "Agent" -> "AGENT" [] w = "Core" -> "CORE"
         [] w = "model" -> "MODEL" [] w = "mode" -> "MODE"
         [] w = "role" -> "ROLE" [] w = "tools" -> "TOOLS"
         [] w = "sys_prompt" -> "SYS_PROMPT"
         [] w = "max_concurrent_requests" -> "MAX_CONCURRENT_REQUESTS"
         [] w = "retry_policy" -> "RETRY_POLICY"]

\* Single-character operator mapping of the lexer
singleCharOps ==
    [c \in {"(", ")", "[", "]", "{", "}", ",", "^", ";", "$"} |->
       CASE c = "(" -> "LPAREN" [] c = ")" -> "RPAREN"
         [] c = "[" -> "LBRACKET" [] c = "]" -> "RBRACKET"
         [] c = "{" -> "LBRACE" [] c = "}" -> "RBRACE" [] c = "," -> "COMMA"
         [] c = "^" -> "BITWISE_XOR" [] c = ";" -> "STATEMENT_END"
         [] c = "$" -> "DOLLAR"]

\* The tables as loaded at package initialisation
InitialTables ==
    [Keywords |-> Keywords, singleCharOps |-> singleCharOps]

\* A lookup that also consults the agent/system table
LookupIdentContext(tab, ident) ==
    IF ident \in DOMAIN tab.Keywords THEN tab.Keywords[ident]
    ELSE IF ident \in DOMAIN AgentSystemKeywords THEN AgentSystemKeywords[ident]
    ELSE "IDENTIFIER"

LookupIdent(tab, ident) ==
    IF ident \in DOMAIN tab.Keywords THEN tab.Keywords[ident]
    ELSE "IDENTIFIER"

Token(type, lexeme, line, column) ==
    [Type |-> type, Lexeme |-> lexeme, Line |-> line, Column |-> column]

(***************************************************************************)
(* package lexer                                                           *)
(***************************************************************************)
New(input) ==
    [input |-> input, pos |-> 0, line |-> 1, column |-> 1, tokens |-> <<>>]

\* l.input[a:b] as a string
RECURSIVE Slice(_, _, _)
Slice(input, a, b) ==
    IF a >= b THEN "" ELSE input[a + 1] \o Slice(input, a + 1, b)

peek(l, offset) ==
    IF l.pos + offset >= Len(l.input) THEN NUL
    ELSE l.input[l.pos + offset + 1]

\* A cursor that moves without counting the column
advanceStuckColumn(l) ==
    IF l.pos >= Len(l.input) THEN l
    ELSE IF l.input[l.pos + 1] = "\n"
         THEN [l EXCEPT !.pos = @ + 1, !.line = @ + 1, !.column = 1]
         ELSE [l EXCEPT !.pos = @ + 1]

advance(l) ==
    IF l.pos >= Len(l.input) THEN l
    ELSE IF l.input[l.pos + 1] = "\n"
         THEN [l EXCEPT !.pos = @ + 1, !.line = @ + 1, !.column = 1]
         ELSE [l EXCEPT !.pos = @ + 1, !.column = @ + 1]

RECURSIVE skipWhitespace(_)
skipWhitespace(l) ==
    IF l.pos < Len(l.input) /\ IsSpace(l.input[l.pos + 1])
       /\ l.input[l.pos + 1] # "\n"
    THEN skipWhitespace(advance(l))
    ELSE l

RECURSIVE readIdentLoop(_)
readIdentLoop(l) ==
    IF l.pos < Len(l.input)
       /\ (IsLetter(l.input[l.pos + 1]) \/ IsDigit(l.input[l.pos + 1])
           \/ l.input[l.pos + 1] = "_")
    THEN readIdentLoop(advance(l))
    ELSE l

\* the read* operators return the lexer after the read and the text read
readIdentifier(l) ==
    LET m == readIdentLoop(l)
    IN  [l |-> m, text |-> Slice(l.input, l.pos, m.pos)]

RECURSIVE readDigits(_)
readDigits(l) ==
    IF l.pos < Len(l.input) /\ IsDigit(l.input[l.pos + 1])
    THEN readDigits(advance(l))
    ELSE l

\* A number that takes a '.' whether or not a digit follows it
readNumberTrailingDot(l) ==
    LET a == readDigits(l)
        isFloat == a.pos < Len(a.input) /\ a.input[a.pos + 1] = "."
        b == IF isFloat THEN readDigits(advance(a)) ELSE a
        c == IF b.pos < Len(b.input) /\ b.input[b.pos + 1] \in {"s", "m", "h"}
             THEN advance(b) ELSE b
    IN  [l |-> c, text |-> Slice(l.input, l.pos, c.pos),
         type |-> IF isFloat THEN "FLOAT" ELSE "INTEGER"]

readNumber(l) ==
    LET a == readDigits(l)
        isFloat == /\ a.pos < Len(a.input) /\ a.input[a.pos + 1] = "."
                   /\ a.pos + 1 < Len(a.input) /\ IsDigit(a.input[a.pos + 2])
        b == IF isFloat THEN readDigits(advance(a)) ELSE a
        c == IF b.pos < Len(b.input) /\ b.input[b.pos + 1] \in {"s", "m", "h"}
             THEN advance(b) ELSE b
    IN  [l |-> c, text |-> Slice(l.input, l.pos, c.pos),
         type |-> IF isFloat THEN "FLOAT" ELSE "INTEGER"]

\* triple-quoted body: up to the closing triple quote or the end of input
RECURSIVE readTripleLoop(_, _, _)
readTripleLoop(l, quote, start) ==
    IF l.pos < Len(l.input)
    THEN IF /\ l.pos + 2 < Len(l.input) /\ l.input[l.pos + 1] = quote
            /\ l.input[l.pos + 2] = quote /\ l.input[l.pos + 3] = quote
         THEN [l |-> advance(advance(advance(l))),
               text |-> Slice(l.input, start, l.pos)]
         ELSE readTripleLoop(advance(l), quote, start)
    ELSE [l |-> l, text |-> Slice(l.input, start, l.pos)]

\* A loop that stops at the first quote, escaped or not
RECURSIVE readPlainLoopNoEscape(_, _)
readPlainLoopNoEscape(l, quote) ==
    IF l.pos < Len(l.input) /\ l.input[l.pos + 1] # quote
    THEN readPlainLoopNoEscape(advance(l), quote)
    ELSE l

RECURSIVE readPlainLoop(_, _)
readPlainLoop(l, quote) ==
    IF l.pos < Len(l.input) /\ l.input[l.pos + 1] # quote
    THEN IF l.input[l.pos + 1] = "\\" /\ l.pos + 1 < Len(l.input)
         THEN readPlainLoop(advance(advance(l)), quote)
         ELSE readPlainLoop(advance(l), quote)
    ELSE l

readString(l0) ==
    LET quote == l0.input[l0.pos + 1]
        l1 == advance(l0)
        isTripleQuoted == /\ l1.pos + 1 < Len(l1.input)
                          /\ l1.input[l1.pos + 1] = quote
                          /\ l1.input[l1.pos + 2] = quote
        l2 == IF isTripleQuoted THEN advance(advance(l1)) ELSE l1
        start == l2.pos
    IN  IF isTripleQuoted THEN readTripleLoop(l2, quote, start)
        ELSE LET m == readPlainLoop(l2, quote)
             IN  [l |-> IF m.pos < Len(m.input) THEN advance(m) ELSE m,
                  text |-> Slice(l0.input, start, m.pos)]

RECURSIVE readToNewline(_)
readToNewline(l) ==
    IF l.pos < Len(l.input) /\ l.input[l.pos + 1] # "\n"
    THEN readToNewline(advance(l))
    ELSE l

\* Synta single-line comment: !>
readLineComment(l) ==
    LET a == advance(advance(l))
        b == readToNewline(a)
    IN  [l |-> b, text |-> Slice(l.input, a.pos, b.pos)]

\* A loop that ends the comment at the end of its line
RECURSIVE readMultiLoopLine(_, _)
readMultiLoopLine(l, start) ==
    IF l.pos < Len(l.input) /\ l.input[l.pos + 1] # "\n"
    THEN IF /\ l.pos < Len(l.input) - 1 /\ l.input[l.pos + 1] = "!"
            /\ l.input[l.pos + 2] = ">"
         THEN LET m == advance(advance(l))
              IN  [l |-> m, text |-> Slice(l.input, start, m.pos)]
         ELSE readMultiLoopLine(advance(l), start)
    ELSE [l |-> l, text |-> Slice(l.input, start, l.pos)]

RECURSIVE readMultiLoop(_, _)
readMultiLoop(l, start) ==
    IF l.pos < Len(l.input)
    THEN IF /\ l.pos < Len(l.input) - 1 /\ l.input[l.pos + 1] = "!"
            /\ l.input[l.pos + 2] = ">"
         THEN LET m == advance(advance(l))
              IN  [l |-> m, text |-> Slice(l.input, start, m.pos)]
         ELSE readMultiLoop(advance(l), start)
    ELSE [l |-> l, text |-> Slice(l.input, start, l.pos)]

\* Synta multi-line comment: <! !>
\* A comment text that starts after the opening marker
readMultiCommentUnmarked(l) == readMultiLoop(advance(advance(l)), l.pos + 2)

readMultiComment(l) == readMultiLoop(advance(advance(l)), l.pos)

addToken(l, tokenType, lexeme, line, column) ==
    [l EXCEPT !.tokens = Append(@, Token(tokenType, lexeme, line, column))]

\* the '@' branch of Tokenize
lexDecorator(l0, line, column) ==
    LET l == advance(l0)
    IN  IF IsLetter(peek(l, 0))
        THEN LET r == readIdentifier(l)
                 ident == r.text
             IN  CASE ident = "agent" ->
                        addToken(r.l, "AT_AGENT", "@agent", line, column)
                   [] ident = "task" ->
                        addToken(r.l, "AT_TASK", "@task", line, column)
                   [] ident = "step" ->
                        addToken(r.l, "AT_STEP", "@step", line, column)
                   [] ident = "intent" ->
                        addToken(r.l, "AT_INTENT", "@intent", line, column)
                   [] ident = "explain" ->
                        addToken(r.l, "AT_EXPLAIN", "@explain", line, column)
                   [] ident = "allow" ->
                        addToken(r.l, "DECORATOR", "@allow", line, column)
                   [] OTHER ->
                        addToken(r.l, "DECORATOR", "@" \o ident, line, column)
        ELSE addToken(l, "ILLEGAL", "@", line, column)

\* case '=' of the operator switch: no token when no continuation follows
lexEquals(l0, line, column) ==
    LET l == advance(l0)
    IN  IF peek(l, 0) = "="
        THEN addToken(advance(l), "EQ", "==", line, column)
        ELSE IF peek(l, 0) = ":"
        THEN addToken(advance(l), "ASSIGN", "=:", line, column)
        ELSE IF peek(l, 0) = ">"
        THEN addToken(advance(l), "FAT_ARROW", "=>", line, column)
        ELSE l

\* the switch over the leading operator character
lexOperator(l0, ch, line, column) ==
    LET l == advance(l0)
        p == peek(l, 0)
    IN  CASE ch = "+" ->
               IF p = "+" THEN addToken(advance(l), "INCREMENT", "++", line, column)
               ELSE IF p = "=" THEN addToken(advance(l), "PLUS_ASSIGN", "+=", line, column)
               ELSE addToken(l, "PLUS", "+", line, column)
          [] ch = "-" ->
               IF p = "-" THEN addToken(advance(l), "DECREMENT", "--", line, column)
               ELSE IF p = "=" THEN addToken(advance(l), "MINUS_ASSIGN", "-=", line, column)
               ELSE IF p = ">" THEN addToken(advance(l), "ARROW", "->", line, column)
               ELSE addToken(l, "MINUS", "-", line, column)
          [] ch = "*" ->
               IF p = "=" THEN addToken(advance(l), "MULT_ASSIGN", "*=", line, column)
               ELSE addToken(l, "MULTIPLY", "*", line, column)
          [] ch = "/" ->
               IF p = "=" THEN addToken(advance(l), "DIV_ASSIGN", "/=", line, column)
               ELSE addToken(l, "DIVIDE", "/", line, column)
          [] ch = "%" ->
               IF p = "=" THEN addToken(advance(l), "MOD_ASSIGN", "%=", line, column)
               ELSE addToken(l, "MODULO", "%", line, column)
          [] ch = "=" -> lexEquals(l0, line, column)
          [] ch = ":" ->
               IF p = "=" THEN addToken(advance(l), "BIND_ASSIGN", ":=", line, column)
               ELSE IF p = ":" THEN addToken(advance(l), "DOUBLE_COLON", "::", line, column)
               ELSE addToken(l, "COLON", ":", line, column)
          [] ch = "!" ->
               IF p = "=" THEN addToken(advance(l), "NEQ", "!=", line, column)
               ELSE addToken(l, "NOT", "!", line, column)
          [] ch = "<" ->
               IF p = "=" THEN addToken(advance(l), "LTE", "<=", line, column)
               ELSE addToken(l, "LT", "<", line, column)
          [] ch = ">" ->
               IF p = "=" THEN addToken(advance(l), "GTE", ">=", line, column)
               ELSE addToken(l, "GT", ">", line, column)
          [] ch = "&" ->
               IF p = "&" THEN addToken(advance(l), "AND", "&&", line, column)
               ELSE addToken(l, "AMPERSAND", "&", line, column)
          [] ch = "|" ->
               IF p = "|" THEN addToken(advance(l), "OR", "||", line, column)
               ELSE IF p = ">"
               THEN IF peek(advance(l), 0) = ">"
                    THEN addToken(advance(advance(l)), "PIPE_PARALLEL", "|>>", line, column)
                    ELSE addToken(advance(l), "PIPE_RIGHT", "|>", line, column)
               ELSE addToken(l, "PIPE_OP", "|", line, column)
          [] ch = "." -> addToken(l, "DOT", ".", line, column)
          [] ch = "\n" -> addToken(l, "NEWLINE", "\\n", line, column)
          [] OTHER -> addToken(l, "ILLEGAL", ch, line, column)

\* An iteration that emits an unknown character without consuming it
TokenizeBodyNoAdvance(tab, l) ==
    IF peek(l, 0) \in Letters \cup Digits
    THEN addToken(advance(l), "IDENTIFIER", peek(l, 0), l.line, l.column)
    ELSE addToken(l, "ILLEGAL", peek(l, 0), l.line, l.column)

\* One pass through the body of Tokenize's loop, after skipWhitespace, with
\* the cursor inside the input
TokenizeBody(tab, l) ==
    LET line == l.line
        column == l.column
        ch == peek(l, 0)
    IN  IF ch = "<" /\ peek(l, 1) = "!"
        THEN LET r == readMultiComment(l)
             IN  addToken(r.l, "COMMENT_MULTI", r.text, line, column)
        ELSE IF ch = "!" /\ peek(l, 1) = ">"
        THEN LET r == readLineComment(l)
             IN  addToken(r.l, "COMMENT_LINE", r.text, line, column)
        ELSE IF ch = "@" THEN lexDecorator(l, line, column)
        ELSE IF IsLetter(ch) \/ ch = "_"
        THEN LET r == readIdentifier(l)
             IN  addToken(r.l, LookupIdent(tab, r.text), r.text, line, column)
        ELSE IF IsDigit(ch)
        THEN LET r == readNumber(l)
             IN  addToken(r.l, r.type, r.text, line, column)
        ELSE IF ch = "\"" \/ ch = "'"
        THEN LET r == readString(l)
             IN  addToken(r.l, "STRING", r.text, line, column)
        ELSE IF ch \in DOMAIN tab.singleCharOps
        THEN addToken(advance(l), tab.singleCharOps[ch], ch, line, column)
        ELSE lexOperator(l, ch, line, column)

\* One iteration of the loop `for l.pos < len(l.input)` of Tokenize
TokenizeIteration(tab, l0) ==
    LET l == skipWhitespace(l0)
    IN  IF l.pos >= Len(l.input) THEN l ELSE TokenizeBody(tab, l)

\* After the loop: the EOF token
TokenizeFinish(l) == addToken(l, "EOF", "", l.line, l.column)

RECURSIVE TokenizeLoop(_, _)
TokenizeLoop(tab, l) ==
    IF l.pos < Len(l.input) THEN TokenizeLoop(tab, TokenizeIteration(tab, l))
    ELSE l

\* Lexer.Tokenize run to completion
Tokenize(tab, input) == TokenizeFinish(TokenizeLoop(tab, New(input))).tokens

(***************************************************************************)
(* package parser: AST nodes                                               *)
(*                                                                         *)
(* Nil is Go's nil Node.  A parse operator returns [p, n]: the parser      *)
(* after the call and the node returned (Nil for nil); an operator that    *)
(* returns a slice of nodes returns [p, ns].                               *)
(*                                                                         *)
(* With([r \in {e} |-> body]) is body with r bound to the value of e: the   *)
(* parsing operators bind the result of a nested parse this way, so that   *)
(* the nested parse is evaluated once, before the body that reads it, and  *)
(* the depth of an evaluation stays proportional to the nesting of the     *)
(* input.                                                                  *)
(***************************************************************************)
With(f) == f[CHOOSE r \in DOMAIN f : TRUE]

Nil == [kind |-> "nil"]
IsNil(n) == n.kind = "nil"

R(p, n) == [p |-> p, n |-> n]
RL(p, ns) == [p |-> p, ns |-> ns]

\* Taking the address of a fresh node: the next allocation gets a new id
Alloc(p) == [p EXCEPT !.nid = @ + 1]

Identifier(id, name) == [kind |-> "Identifier", id |-> id, Name |-> name]
Literal(id, type, value) ==
    [kind |-> "Literal", id |-> id, Type |-> type, Value |-> value]
BinaryOp(id, left, operator, right) ==
    [kind |-> "BinaryOp", id |-> id, Left |-> left, Operator |-> operator,
     Right |-> right]
UnaryOp(id, operator, operand) ==
    [kind |-> "UnaryOp", id |-> id, Operator |-> operator, Operand |-> operand]
CallExpression(id, function, arguments) ==
    [kind |-> "CallExpression", id |-> id, Function |-> function,
     Arguments |-> arguments]
ArrayLiteral(id, elements) ==
    [kind |-> "ArrayLiteral", id |-> id, Elements |-> elements]
MapLiteral(id, pairs) == [kind |-> "MapLiteral", id |-> id, Pairs |-> pairs]
KeyValue(key, value) == [Key |-> key, Value |-> value]
AsyncStatement(id, body) == [kind |-> "AsyncStatement", id |-> id, Body |-> body]
AwaitExpression(id, expression) ==
    [kind |-> "AwaitExpression", id |-> id, Expression |-> expression]
EmitStatement(id, eventName, data) ==
    [kind |-> "EmitStatement", id |-> id, EventName |-> eventName, Data |-> data]
ListenStatement(id, eventName, handler) ==
    [kind |-> "ListenStatement", id |-> id, EventName |-> eventName,
     Handler |-> handler]
ConfigBlock(id, name, value) ==
    [kind |-> "ConfigBlock", id |-> id, Name |-> name, Value |-> value]
IfStatement(id, condition, thenBody, elseBody) ==
    [kind |-> "IfStatement", id |-> id, Condition |-> condition,
     ThenBody |-> thenBody, ElseBody |-> elseBody]
WhileStatement(id, condition, body) ==
    [kind |-> "WhileStatement", id |-> id, Condition |-> condition, Body |-> body]
ForStatement(id, variable, init, condition, update, iterable, body, concurrent) ==
    [kind |-> "ForStatement", id |-> id, Variable |-> variable, Init |-> init,
     Condition |-> condition, Update |-> update, Iterable |-> iterable,
     Body |-> body, Concurrent |-> concurrent]
SwitchStatement(id, expression, cases, default) ==
    [kind |-> "SwitchStatement", id |-> id, Expression |-> expression,
     Cases |-> cases, Default |-> default]
CaseClause(value, body) == [Value |-> value, Body |-> body]
ReturnStatement(id, value) == [kind |-> "ReturnStatement", id |-> id, Value |-> value]
Field(name, type, value) == [Name |-> name, Type |-> type, Value |-> value]
Parameter(name, type) == [Name |-> name, Type |-> type]
Declaration(id, declType, name, type, value, params, body, fields, decorator) ==
    [kind |-> "Declaration", id |-> id, DeclType |-> declType, Name |-> name,
     Type |-> type, Value |-> value, Params |-> params, Body |-> body,
     Fields |-> fields, Decorator |-> decorator]
\* The catch-all Statement{Type, Value}: Value is the map of its pieces, a
\* record here
Statement(id, type, value) ==
    [kind |-> "Statement", id |-> id, Type |-> type, Value |-> value]

(***************************************************************************)
(* package parser: helpers                                                 *)
(***************************************************************************)
NewParser(tokens) == [tokens |-> tokens, pos |-> 0, errors |-> <<>>, nid |-> 1]

\* token.Token{Type: token.EOF}: the synthetic token past the end
SyntheticEOF == [Type |-> "EOF", Lexeme |-> "", Line |-> 0, Column |-> 0]

current(p) ==
    IF p.pos >= Len(p.tokens) THEN SyntheticEOF ELSE p.tokens[p.pos + 1]

pPeek(p, offset) ==
    IF p.pos + offset >= Len(p.tokens) THEN SyntheticEOF
    ELSE p.tokens[p.pos + offset + 1]

pAdvance(p) == [p EXCEPT !.pos = @ + 1]

\* TokenType.String(): the TokenNames table
TokenString(t) ==
    CASE t = "INT_TYPE" -> "INT" [] t = "FLOAT_TYPE" -> "FLOAT"
      [] t = "CHAR_TYPE" -> "CHAR" [] t = "BOOL_TYPE" -> "BOOL"
      [] t = "STR_TYPE" -> "STR" [] t = "MAP_TYPE" -> "MAP"
      [] t = "ARRAY_TYPE" -> "ARRAY" [] t = "STATEMENT_END" -> "STMT_END"
      [] OTHER -> t

\* addError without the position of the token
addErrorNoPosition(p, tok, message) ==
    [p EXCEPT !.errors = Append(@, [Line |-> 0, Column |-> 0,
                                    Message |-> message, Type |-> "syntax"])]

addError(p, tok, message) ==
    [p EXCEPT !.errors = Append(@, [Line |-> tok.Line, Column |-> tok.Column,
                                    Message |-> message, Type |-> "syntax"])]

match(p, types) == current(p).Type \in types

\* expect returns the parser, the token consumed and whether it matched
expect(p, tokenType) ==
    IF current(p).Type = tokenType
    THEN [p |-> pAdvance(p), tok |-> current(p), ok |-> TRUE]
    ELSE [p |-> addError(p, current(p),
                         "expected " \o TokenString(tokenType) \o ", got "
                           \o TokenString(current(p).Type)),
          tok |-> [Type |-> "IDENTIFIER", Lexeme |-> "", Line |-> 0, Column |-> 0],
          ok |-> FALSE]

RECURSIVE skipWhile(_, _)
skipWhile(p, types) ==
    IF match(p, types) THEN skipWhile(pAdvance(p), types) ELSE p

skipNewlines(p) == skipWhile(p, {"NEWLINE", "COMMENT_LINE", "COMMENT_MULTI"})

\* keywordCategories, by category
IOKeywords == {"READ", "WRITE", "PRINT", "LOG", "SAVE"}
DebugKeywords ==
    {"DEBUG", "CHECKPOINT", "TRACE", "ASSERT", "CONFIGURE", "GENERATE_REPORT"}
AIKeywords ==
    {"THINK", "ASK", "PROMPT", "ADAPT", "CALL_API", "TRAIN", "EVALUATE",
     "REASON", "OBSERVE"}
AgentSystemKeywordTypes ==
    {"AGENT", "CORE", "MODEL", "TOOLS", "ROLE", "MODE", "SYS_PROMPT",
     "MAX_CONCURRENT_REQUESTS", "RETRY_POLICY"}
ConcurrencyKeywords ==
    {"ASYNC", "AWAIT", "EMIT", "LISTEN", "DISPATCH", "MERGE", "TASK",
     "CONCURRENT", "STAGE", "GATHER"}
SpecialConstructKeywords ==
    {"WITH", "THEN", "DEFER", "PIPE", "PASS", "ALLOW", "THROUGH", "RANGE",
     "STRATEGY", "TIMEOUT", "WINDOW", "ALERT_THRESHOLD", "PSEUDO"}
AgentOperationKeywords ==
    {"DELEGATE", "ROUTE", "COMPOSE", "INSPECT", "CREATE_POOL", "MAX_WORKERS",
     "SUBMIT", "SUBMIT_DELAYED", "JOIN", "NOW", "EXECUTION_TIME", "REPORT"}

isIOKeyword(t) == t \in IOKeywords
isDebugKeyword(t) == t \in DebugKeywords
isAIKeyword(t) == t \in AIKeywords
isAgentSystemKeyword(t) == t \in AgentSystemKeywordTypes
isConcurrencyKeyword(t) == t \in ConcurrencyKeywords
isSpecialConstructKeyword(t) == t \in SpecialConstructKeywords
isAgentOperationKeyword(t) == t \in AgentOperationKeywords

\* A whitelist without the keywords: identifiers only
isValidFieldNameIdentifier(t) ==
    \/ isAgentSystemKeyword(t)
    \/ t = "IDENTIFIER"

isValidFieldName(t) ==
    \/ isAgentSystemKeyword(t)
    \/ t \in {"TYPE", "CONTEXT", "MEMORY", "FLOW", "TIMEOUT", "TASK", "EMIT",
              "INPUT", "ACTION", "EXECUTION", "RETRY", "ENABLED", "MAX",
              "DEPENDS_ON", "CONFIG", "OUTPUTS", "BREAKPOINTS",
              "ON_CONCUR_DEADLOCK", "ON_LOOP", "ON_TIMEOUT", "GLOBAL",
              "MAX_CONCURRENT_REQUESTS", "RETRY_POLICY", "IDENTIFIER"}

\* acceptKeywordAsIdent returns the parser, the token and whether it matched
acceptKeywordAsIdent(p) ==
    LET t == current(p).Type
    IN  IF \/ isIOKeyword(t) \/ isDebugKeyword(t) \/ isAIKeyword(t)
           \/ isAgentOperationKeyword(t) \/ isConcurrencyKeyword(t)
           \/ isSpecialConstructKeyword(t)
           \/ t \in {"BREAKPOINT", "CHECKPOINT", "DEBUG", "ALLOW", "PSEUDO",
                     "TYPE", "CAST", "ANY", "NONE"}
        THEN [p |-> pAdvance(p), tok |-> current(p), ok |-> TRUE]
        ELSE [p |-> p, tok |-> current(p), ok |-> FALSE]

TypeNameTokens == {"INT_TYPE", "FLOAT_TYPE", "STR_TYPE", "BOOL_TYPE", "IDENTIFIER"}

(***************************************************************************)
(* package parser: expressions                                             *)
(***************************************************************************)
RECURSIVE parseStatement(_), parseBlock(_), parseBlockLoop(_, _),
          parseExpression(_), parseAssignment(_), parsePipeline(_, _),
          parseLogicalOr(_, _), parseLogicalAnd(_, _), parseEquality(_, _),
          parseComparison(_, _), parseAdditive(_, _),
          parseAdditiveRightAssoc(_, _), parseMultiplicative(_, _),
          parseUnary(_), parsePostfix(_, _), postfixLoop(_, _),
          parsePrimary(_), parseTupleLiteral(_), parseArrayLiteral(_),
          parseMapLiteral(_), mapLiteralLoop(_, _), exprListLoop(_, _, _),
          parseAwaitExpression(_), awaitAllLoop(_, _),
          parseAsyncStatement(_), parseFunctionDeclaration(_),
          parseIfStatement(_), fieldListLoop(_, _), switchLoop(_, _, _),
          paramLoop(_, _), structFieldLoop(_, _), matchLoop(_, _),
          allowArgsLoop(_, _)

parseExpression(p) == parseAssignment(p)

AssignOps ==
    {"ASSIGN", "BIND_ASSIGN", "PLUS_ASSIGN", "MINUS_ASSIGN", "MULT_ASSIGN",
     "DIV_ASSIGN", "MOD_ASSIGN"}

\* A binary level of the grammar is, in the Go code,
\*     left := next(); for match(ops) { op := advance(); right := next();
\*                                      left = &BinaryOp{left, op.Lexeme, right} }
\* The operator of a level, parseX(p, acc), parses one operand at p: the
\* first one when acc = <<>>, and otherwise the right operand of the pending
\* <<left, operator>>; a call of the Go function is parseX(p, <<>>).
\* operand gives the value of `left` after the operand r.
operand(acc, r) ==
    IF acc = <<>> THEN r
    ELSE R(Alloc(r.p), BinaryOp(r.p.nid, acc[1], acc[2], r.n))

\* the pending <<left, operator>> once the operator at l.p is consumed
pending(l) == <<l.n, current(l.p).Lexeme>>

parseAssignment(p) ==
    With([l \in {parsePipeline(p, <<>>)} |->
      IF match(l.p, AssignOps)
      THEN With([r \in {parseExpression(pAdvance(l.p))} |->
             operand(pending(l), r)])
      ELSE l])

\* the elements of a comma-separated expression list up to `close`
\* (parseTupleLiteral, parseArrayLiteral, call arguments, decorator arguments)
exprListLoop(p, elements, close) ==
    IF ~match(p, {close}) /\ current(p).Type # "EOF"
    THEN With([r \in {parseExpression(p)} |->
           LET es == Append(elements, r.n)
           IN  IF ~match(r.p, {close})
               THEN IF match(r.p, {"COMMA"})
                    THEN exprListLoop(pAdvance(r.p), es, close)
                    ELSE RL(r.p, es)
               ELSE exprListLoop(r.p, es, close)])
    ELSE RL(p, elements)

parsePipeline(p, acc) ==
    With([r \in {parseLogicalOr(p, <<>>)} |->
      LET l == operand(acc, r)
      IN  IF match(l.p, {"PIPE_RIGHT", "PIPE_PARALLEL"})
          THEN parsePipeline(pAdvance(l.p), pending(l))
          ELSE l])

parseLogicalOr(p, acc) ==
    With([r \in {parseLogicalAnd(p, <<>>)} |->
      LET l == operand(acc, r)
      IN  IF match(l.p, {"OR"}) THEN parseLogicalOr(pAdvance(l.p), pending(l))
          ELSE l])

parseLogicalAnd(p, acc) ==
    With([r \in {parseEquality(p, <<>>)} |->
      LET l == operand(acc, r)
      IN  IF match(l.p, {"AND"}) THEN parseLogicalAnd(pAdvance(l.p), pending(l))
          ELSE l])

parseEquality(p, acc) ==
    With([r \in {parseComparison(p, <<>>)} |->
      LET l == operand(acc, r)
      IN  IF match(l.p, {"EQ", "NEQ"})
          THEN parseEquality(pAdvance(l.p), pending(l))
          ELSE l])

parseComparison(p, acc) ==
    With([r \in {parseAdditive(p, <<>>)} |->
      LET l == operand(acc, r)
      IN  IF match(l.p, {"LT", "LTE", "GT", "GTE"})
          THEN parseComparison(pAdvance(l.p), pending(l))
          ELSE l])

\* An additive loop whose right operand is a whole additive expression
parseAdditiveRightAssoc(p, acc) ==
    With([r \in {parseMultiplicative(p, <<>>)} |->
      IF match(r.p, {"PLUS", "MINUS"})
      THEN operand(acc, operand(pending(r),
                                parseAdditiveRightAssoc(pAdvance(r.p), <<>>)))
      ELSE operand(acc, r)])

parseAdditive(p, acc) ==
    With([r \in {parseMultiplicative(p, <<>>)} |->
      LET l == operand(acc, r)
      IN  IF match(l.p, {"PLUS", "MINUS"})
          THEN parseAdditive(pAdvance(l.p), pending(l))
          ELSE l])

parseMultiplicative(p, acc) ==
    With([r \in {parseUnary(p)} |->
      LET l == operand(acc, r)
      IN  IF match(l.p, {"MULTIPLY", "DIVIDE", "MODULO"})
          THEN parseMultiplicative(pAdvance(l.p), pending(l))
          ELSE l])

parseUnary(p) ==
    CASE match(p, {"NOT", "MINUS", "PLUS"}) ->
           LET opToken == current(p)
           IN  With([r \in {parseUnary(pAdvance(p))} |->
                 R(Alloc(r.p), UnaryOp(r.p.nid, opToken.Lexeme, r.n))])
      [] match(p, {"AWAIT"}) -> parseAwaitExpression(p)
      [] OTHER -> parsePostfix(p, <<>>)

\* The loop of parsePostfix with `left` parsed: its first branch takes a
\* pipeline operator and a parsePrimary as right operand
postfixLoop(p, left) ==
    IF match(p, {"PIPE_RIGHT", "PIPE_PARALLEL"})
    THEN parsePostfix(pAdvance(p), <<left, current(p).Lexeme>>)
    ELSE IF match(p, {"LPAREN"})
    THEN With([a \in {exprListLoop(pAdvance(p), <<>>, "RPAREN")} |->
           LET e == expect(a.p, "RPAREN")
           IN  postfixLoop(Alloc(e.p), CallExpression(e.p.nid, left, a.ns))])
    ELSE IF match(p, {"LBRACKET"})
    THEN With([r \in {parseExpression(pAdvance(p))} |->
           LET e == expect(r.p, "RBRACKET")
           IN  postfixLoop(Alloc(e.p), BinaryOp(e.p.nid, left, "[]", r.n))])
    ELSE IF match(p, {"DOT"})
    THEN LET e == expect(pAdvance(p), "IDENTIFIER")
         IN  IF ~e.ok THEN R(e.p, left)
             ELSE postfixLoop(Alloc(Alloc(e.p)),
                              BinaryOp(e.p.nid + 1, left, ".",
                                       Identifier(e.p.nid, e.tok.Lexeme)))
    ELSE IF match(p, {"INCREMENT", "DECREMENT"})
    THEN LET opToken == current(p)
             q == pAdvance(p)
         IN  postfixLoop(Alloc(q), UnaryOp(q.nid, opToken.Lexeme \o "_post", left))
    ELSE IF match(p, {"ARROW"})
    THEN With([r \in {parseExpression(pAdvance(p))} |->
           postfixLoop(Alloc(r.p), BinaryOp(r.p.nid, left, "->", r.n))])
    ELSE R(p, left)

\* parsePostfix(p, <<>>) is the Go function; with a pending <<left, operator>>
\* it parses the parsePrimary that its loop takes after a pipeline operator
parsePostfix(p, acc) ==
    With([r \in {parsePrimary(p)} |->
      LET l == operand(acc, r)
      IN  postfixLoop(l.p, l.n)])

\* the keywords parsePrimary accepts as identifiers
isPrimaryKeyword(t) ==
    \/ isIOKeyword(t) \/ isDebugKeyword(t) \/ isAIKeyword(t)
    \/ isAgentOperationKeyword(t) \/ isConcurrencyKeyword(t)
    \/ isSpecialConstructKeyword(t) \/ isValidFieldName(t)
    \/ t \in {"TRACE", "NOW", "GATHER", "CREATE_POOL", "BREAKPOINT",
              "CHECKPOINT", "DEBUG", "ALLOW", "PSEUDO", "TYPE", "CAST", "ANY",
              "NONE", "TRAIT"}

parsePrimary(p) ==
    LET tok == current(p)
        t == tok.Type
        q == pAdvance(p)
    IN  CASE t = "IDENTIFIER" -> R(Alloc(q), Identifier(q.nid, tok.Lexeme))
          [] t = "INTEGER" -> R(Alloc(q), Literal(q.nid, "int", tok.Lexeme))
          [] t = "FLOAT" -> R(Alloc(q), Literal(q.nid, "float", tok.Lexeme))
          [] t = "STRING" -> R(Alloc(q), Literal(q.nid, "string", tok.Lexeme))
          [] t \in {"TRUE", "FALSE"} ->
               R(Alloc(q), Literal(q.nid, "bool", tok.Lexeme))
          [] t = "NULL" -> R(Alloc(q), Literal(q.nid, "null", tok.Lexeme))
          [] t = "LPAREN" -> parseTupleLiteral(p)
          [] t = "LBRACKET" -> parseArrayLiteral(p)
          [] t = "LBRACE" -> parseMapLiteral(p)
          [] t = "ASYNC" -> parseAsyncStatement(p)
          [] OTHER ->
               IF isPrimaryKeyword(t)
               THEN R(Alloc(q), Identifier(q.nid, tok.Lexeme))
               ELSE R(pAdvance(addError(p, tok, "unexpected token: "
                                                  \o TokenString(t))),
                      Nil)

parseTupleLiteral(p) ==
    With([a \in {exprListLoop(pAdvance(p), <<>>, "RPAREN")} |->
      LET e == expect(a.p, "RPAREN")
      IN  IF Len(a.ns) = 1 THEN R(e.p, a.ns[1])
          ELSE R(Alloc(e.p), ArrayLiteral(e.p.nid, a.ns))])

parseArrayLiteral(p) ==
    With([a \in {exprListLoop(pAdvance(p), <<>>, "RBRACKET")} |->
      LET e == expect(a.p, "RBRACKET")
      IN  R(Alloc(e.p), ArrayLiteral(e.p.nid, a.ns))])

MapSeparators ==
    {"COMMA", "STATEMENT_END", "NEWLINE", "COMMENT_LINE", "COMMENT_MULTI"}

\* the pair loop of parseMapLiteral
mapLiteralLoop(p0, pairs) ==
    IF ~match(p0, {"RBRACE"}) /\ current(p0).Type # "EOF"
    THEN LET p == skipNewlines(p0)
             keyToken == current(p)
             t == keyToken.Type
         IN  IF match(p, {"RBRACE"}) THEN RL(p, pairs)
             ELSE IF \/ t = "IDENTIFIER" \/ isValidFieldName(t)
                     \/ isIOKeyword(t) \/ isDebugKeyword(t) \/ isAIKeyword(t)
                     \/ isConcurrencyKeyword(t)
             THEN LET q == pAdvance(p)
                      key == Identifier(q.nid, keyToken.Lexeme)
                      k == Alloc(q)
                  IN  IF match(k, {"COMMA", "RBRACE", "NEWLINE", "STATEMENT_END"})
                      THEN \* shorthand { x }: value = key, the same node
                           mapLiteralLoop(
                               skipNewlines(skipWhile(k, MapSeparators)),
                               Append(pairs, KeyValue(key, key)))
                      ELSE IF ~match(k, {"COLON"})
                      THEN mapLiteralLoop(
                               pAdvance(addError(k, current(k),
                                                 "expected ':' after field name")),
                               pairs)
                      ELSE LET c == pAdvance(k)
                           IN  With([v \in {IF match(c, {"LBRACE"}) THEN parseMapLiteral(c)
                                            ELSE parseExpression(c)} |->
                                 IF ~match(c, {"LBRACE"}) /\ IsNil(v.n)
                                 THEN mapLiteralLoop(v.p, pairs)
                                 ELSE mapLiteralLoop(
                                          skipNewlines(skipWhile(v.p, MapSeparators)),
                                          Append(pairs, KeyValue(key, v.n)))])
             ELSE mapLiteralLoop(
                      pAdvance(addError(p, keyToken,
                                        "expected field name, got "
                                          \o TokenString(t))),
                      pairs)
    ELSE RL(p0, pairs)

parseMapLiteral(p) ==
    With([a \in {mapLiteralLoop(pAdvance(p), <<>>)} |->
      IF ~match(a.p, {"RBRACE"})
      THEN R(addError(a.p, current(a.p), "expected '}' after map literal"), Nil)
      ELSE LET q == pAdvance(a.p)
           IN  R(Alloc(q), MapLiteral(q.nid, a.ns))])

(***************************************************************************)
(* package parser: statements                                              *)
(***************************************************************************)
parseDecoratorStatement(p0) ==
    LET p1 == pAdvance(p0)
        id == p1.nid
        p2 == Alloc(p1)
        hasName == match(p2, {"IDENTIFIER"})
        name == IF hasName THEN current(p2).Lexeme ELSE ""
        p3 == IF hasName THEN pAdvance(p2) ELSE p2
    IN  IF match(p3, {"LPAREN"})
        THEN With([a \in {exprListLoop(pAdvance(p3), <<>>, "RPAREN")} |->
               LET e == expect(a.p, "RPAREN")
               IN  R(e.p, Statement(id, "decorator", [name |-> name, args |-> a.ns]))])
        ELSE R(p3, Statement(id, "decorator", [name |-> name, args |-> <<>>]))

allowArgsLoop(p, args) ==
    IF ~match(p, {"RPAREN"}) /\ current(p).Type # "EOF"
    THEN With([r \in {parseExpression(p)} |->
           LET as == Append(args, r.n)
           IN  IF match(r.p, {"COMMA"})
               THEN IF match(pAdvance(r.p), {"RPAREN"}) THEN RL(pAdvance(r.p), as)
                    ELSE allowArgsLoop(pAdvance(r.p), as)
               ELSE IF ~match(r.p, {"RPAREN"}) THEN RL(r.p, as)
               ELSE allowArgsLoop(r.p, as)])
    ELSE RL(p, args)

parseAllowStatement(p0) ==
    LET p1 == pAdvance(p0)
    IN  IF match(p1, {"PSEUDO", "IDENTIFIER"})
        THEN LET functionName == current(p1).Lexeme
                 p2 == pAdvance(p1)
             IN  With([a \in {IF match(p2, {"LPAREN"})
                              THEN With([l \in {allowArgsLoop(pAdvance(p2), <<>>)} |->
                                     RL(expect(l.p, "RPAREN").p, l.ns)])
                              ELSE RL(p2, <<>>)} |->
                   R(Alloc(Alloc(a.p)),
                     CallExpression(a.p.nid + 1,
                                    Identifier(a.p.nid, "allow_" \o functionName),
                                    a.ns))])
        ELSE R(addError(p1, current(p1), "expected function name after 'allow'"),
               Nil)

\* the field loop of parseAgentDeclaration and of parseTaskDeclaration
fieldListLoop(p0, fields) ==
    IF ~match(p0, {"RBRACE"}) /\ current(p0).Type # "EOF"
    THEN LET p == skipNewlines(p0)
             fieldToken == current(p)
         IN  IF match(p, {"RBRACE"}) THEN RL(p, fields)
             ELSE IF fieldToken.Type = "IDENTIFIER"
                     \/ isValidFieldName(fieldToken.Type)
             THEN LET k == pAdvance(p)
                  IN  IF ~match(k, {"COLON"})
                      THEN fieldListLoop(
                               pAdvance(addError(k, current(k),
                                                 "expected ':' after field name")),
                               fields)
                      ELSE With([v \in {parseExpression(pAdvance(k))} |->
                             IF IsNil(v.n) THEN fieldListLoop(v.p, fields)
                             ELSE fieldListLoop(
                                      skipNewlines(skipWhile(v.p, MapSeparators)),
                                      Append(fields,
                                             Field(fieldToken.Lexeme, "", v.n)))])
             ELSE fieldListLoop(
                      pAdvance(addError(p, fieldToken,
                                        "expected field name, got "
                                          \o TokenString(fieldToken.Type))),
                      fields)
    ELSE RL(p0, fields)

\* the shape shared by parseAgentDeclaration and parseTaskDeclaration
parseFieldDeclaration(p0, declType) ==
    LET e == expect(pAdvance(p0), "IDENTIFIER")
    IN  IF ~e.ok THEN R(e.p, Nil)
        ELSE IF ~match(e.p, {"LBRACE"})
        THEN R(addError(e.p, current(e.p),
                        "expected '{' after " \o declType \o " name"), Nil)
        ELSE With([a \in {fieldListLoop(pAdvance(e.p), <<>>)} |->
               IF ~match(a.p, {"RBRACE"})
               THEN R(addError(a.p, current(a.p),
                               "expected '}' after " \o declType \o " body"), Nil)
               ELSE LET q == pAdvance(a.p)
                    IN  R(Alloc(q),
                          Declaration(q.nid, declType, e.tok.Lexeme, "", Nil,
                                      <<>>, <<>>, a.ns, ""))])

parseAgentDeclaration(p) == parseFieldDeclaration(p, "agent")

parseTaskDeclaration(p) == parseFieldDeclaration(p, "task")

\* the optional `: type` annotation: the parser after it and the type read
typeAnnotation(p) ==
    IF match(p, {"COLON"})
    THEN LET q == pAdvance(p)
         IN  IF match(q, TypeNameTokens)
             THEN [p |-> pAdvance(q), type |-> current(q).Lexeme]
             ELSE [p |-> q, type |-> ""]
    ELSE [p |-> p, type |-> ""]

\* the optional `=: value` / `:= value` of a declaration
\* A value that only `:=` introduces
optionalValueBindOnly(p) ==
    IF match(p, {"BIND_ASSIGN"}) THEN parseExpression(pAdvance(p))
    ELSE R(p, Nil)

optionalValue(p) ==
    IF match(p, {"ASSIGN", "BIND_ASSIGN"}) THEN parseExpression(pAdvance(p))
    ELSE R(p, Nil)

\* A declaration that insists on its assignment operator
parseDeclarationStrict(p0) ==
    LET declType == current(p0).Lexeme
        p1 == pAdvance(p0)
        e == expect(p1, "IDENTIFIER")
        ty == typeAnnotation(e.p)
        a == expect(ty.p, "BIND_ASSIGN")
    IN  With([v \in {IF a.ok THEN parseExpression(a.p) ELSE R(a.p, Nil)} |->
          IF ~e.ok THEN R(e.p, Nil)
          ELSE R(Alloc(v.p),
                 Declaration(v.p.nid, declType, e.tok.Lexeme, ty.type, v.n,
                             <<>>, <<>>, <<>>, ""))])

parseDeclaration(p0) ==
    LET declType == current(p0).Lexeme
        p1 == pAdvance(p0)
    IN  IF match(p1, {"COLON"}) /\ pPeek(p1, 1).Type = "LBRACE"
        THEN With([m \in {parseMapLiteral(pAdvance(p1))} |->
               R(Alloc(m.p), ConfigBlock(m.p.nid, declType, m.n))])
        ELSE LET e == expect(p1, "IDENTIFIER")
                 ty == typeAnnotation(e.p)
             IN  With([v \in {optionalValue(ty.p)} |->
                   IF ~e.ok THEN R(e.p, Nil)
                   ELSE R(Alloc(v.p),
                          Declaration(v.p.nid, declType, e.tok.Lexeme, ty.type,
                                      v.n, <<>>, <<>>, <<>>, ""))])

parseTypedDeclaration(p0) ==
    LET varType == current(p0).Lexeme
        e == expect(pAdvance(p0), "IDENTIFIER")
    IN  With([v \in {optionalValue(e.p)} |->
          IF ~e.ok THEN R(e.p, Nil)
          ELSE R(Alloc(v.p),
                 Declaration(v.p.nid, "bind", e.tok.Lexeme, varType, v.n,
                             <<>>, <<>>, <<>>, ""))])

\* the case loop of parseSwitchStatement: [p, cases, default]
switchLoop(p0, cases, defaultBody) ==
    IF ~match(p0, {"RBRACE"}) /\ current(p0).Type # "EOF"
    THEN LET p == skipNewlines(p0)
         IN  IF match(p, {"RBRACE"})
             THEN [p |-> p, cases |-> cases, default |-> defaultBody]
             ELSE IF match(p, {"CASE"})
             THEN With([v \in {parseExpression(pAdvance(p))} |->
                    IF IsNil(v.n)
                    THEN switchLoop(addError(v.p, current(v.p),
                                             "expected expression after 'case'"),
                                    cases, defaultBody)
                    ELSE IF ~match(v.p, {"LBRACE"})
                    THEN switchLoop(addError(v.p, current(v.p),
                                             "expected '{' after case value"),
                                    cases, defaultBody)
                    ELSE With([b \in {parseBlock(pAdvance(v.p))} |->
                           switchLoop(b.p, Append(cases, CaseClause(v.n, b.ns)),
                                      defaultBody)])])
             ELSE IF match(p, {"DEFAULT"})
             THEN LET q == pAdvance(p)
                  IN  IF ~match(q, {"LBRACE"})
                      THEN switchLoop(addError(q, current(q),
                                               "expected '{' after 'default'"),
                                      cases, defaultBody)
                      ELSE With([b \in {parseBlock(pAdvance(q))} |->
                             switchLoop(b.p, cases, b.ns)])
             ELSE switchLoop(
                      pAdvance(addError(p, current(p),
                          "expected 'case' or 'default' in switch statement")),
                      cases, defaultBody)
    ELSE [p |-> p0, cases |-> cases, default |-> defaultBody]

parseSwitchStatement(p0) ==
    With([x \in {parseExpression(pAdvance(p0))} |->
      IF IsNil(x.n)
      THEN R(addError(x.p, current(x.p), "expected expression after 'switch'"),
             Nil)
      ELSE IF ~match(x.p, {"LBRACE"})
      THEN R(addError(x.p, current(x.p), "expected '{' after switch expression"),
             Nil)
      ELSE With([l \in {switchLoop(pAdvance(x.p), <<>>, <<>>)} |->
             IF ~match(l.p, {"RBRACE"})
             THEN R(addError(l.p, current(l.p),
                             "expected '}' after switch body"), Nil)
             ELSE LET q == pAdvance(l.p)
                  IN  R(Alloc(q),
                        SwitchStatement(q.nid, x.n, l.cases, l.default))])])

\* the parameter loop of parseFunctionDeclaration
paramLoop(p, params) ==
    IF ~match(p, {"RPAREN"}) /\ current(p).Type # "EOF"
    THEN IF \/ match(p, {"IDENTIFIER"}) \/ isValidFieldName(current(p).Type)
            \/ match(p, {"PROMPT", "THINK", "ASK"})
         THEN LET paramName == current(p).Lexeme
                  ty == typeAnnotation(pAdvance(p))
                  ps == Append(params, Parameter(paramName, ty.type))
              IN  IF ~match(ty.p, {"RPAREN"})
                  THEN paramLoop(expect(ty.p, "COMMA").p, ps)
                  ELSE paramLoop(ty.p, ps)
         ELSE RL(addError(p, current(p), "expected parameter name"), params)
    ELSE RL(p, params)

parseFunctionDeclaration(p0) ==
    LET p1 == pAdvance(p0)
        hasDecorator == match(p1, {"AT_AGENT", "AT_TASK", "AT_STEP", "AT_INTENT",
                                   "AT_EXPLAIN", "DECORATOR"})
        decorator == IF hasDecorator THEN current(p1).Lexeme ELSE ""
        p2 == IF hasDecorator THEN pAdvance(p1) ELSE p1
        e == expect(p2, "IDENTIFIER")
    IN  IF ~e.ok THEN R(e.p, Nil)
        ELSE IF ~match(e.p, {"LPAREN"})
        THEN R(addError(e.p, current(e.p), "expected '(' after function name"), Nil)
        ELSE
        With([a \in {paramLoop(pAdvance(e.p), <<>>)} |->
          IF ~match(a.p, {"RPAREN"})
          THEN R(addError(a.p, current(a.p), "expected ')'"), Nil)
          ELSE
          LET p3 == pAdvance(a.p)
              hasArrow == match(p3, {"ARROW", "FAT_ARROW"})
              p4 == IF hasArrow THEN pAdvance(p3) ELSE p3
              hasType == hasArrow /\ match(p4, TypeNameTokens)
              returnType == IF hasType THEN current(p4).Lexeme ELSE ""
              p5 == IF hasType THEN pAdvance(p4) ELSE p4
              p6 == IF match(p5, {"DOUBLE_COLON"}) THEN pAdvance(p5) ELSE p5
          IN  IF ~match(p6, {"LBRACE"})
              THEN R(addError(p6, current(p6), "expected '{' for function body"),
                     Nil)
              ELSE With([b \in {parseBlock(pAdvance(p6))} |->
                     R(Alloc(b.p),
                       Declaration(b.p.nid, "fn", e.tok.Lexeme, returnType,
                                   Nil, a.ns, b.ns, <<>>, decorator))])])

parseAsyncStatement(p0) ==
    LET p1 == pAdvance(p0)
    IN  IF match(p1, {"FN"}) THEN parseFunctionDeclaration(p1)
        ELSE IF ~match(p1, {"LBRACE"})
        THEN R(addError(p1, current(p1), "expected '{' or 'fn' after 'async'"), Nil)
        ELSE With([b \in {parseBlock(pAdvance(p1))} |->
               R(Alloc(b.p), AsyncStatement(b.p.nid, b.ns))])

\* the expression loop of `await all { ... }` / `await race { ... }`
awaitAllLoop(p0, exprs) ==
    IF ~match(p0, {"RBRACE"}) /\ current(p0).Type # "EOF"
    THEN With([r \in {parseExpression(skipNewlines(p0))} |->
           awaitAllLoop(skipWhile(r.p, {"COMMA", "STATEMENT_END", "NEWLINE"}),
                        IF IsNil(r.n) THEN exprs ELSE Append(exprs, r.n))])
    ELSE RL(p0, exprs)

parseAwaitExpression(p0) ==
    LET p1 == pAdvance(p0)
        isAll == match(p1, {"IDENTIFIER"}) /\ current(p1).Lexeme \in {"all", "race"}
        p2 == IF isAll THEN pAdvance(p1) ELSE p1
    IN  IF isAll /\ match(p2, {"LBRACE"})
        THEN With([a \in {awaitAllLoop(pAdvance(p2), <<>>)} |->
               LET e == expect(a.p, "RBRACE")
               IN  R(Alloc(Alloc(e.p)),
                     AwaitExpression(e.p.nid + 1, ArrayLiteral(e.p.nid, a.ns)))])
        ELSE With([r \in {parseExpression(p2)} |->
               R(Alloc(r.p), AwaitExpression(r.p.nid, r.n))])

parseEmitStatement(p0) ==
    LET p1 == pAdvance(p0)
        k == acceptKeywordAsIdent(p1)
    IN  IF match(p1, {"IDENTIFIER"}) \/ k.ok
        THEN LET eventName == current(p1).Lexeme
                 p2 == pAdvance(p1)
             IN  With([d \in {IF match(p2, {"LBRACE"}) THEN parseMapLiteral(p2)
                              ELSE R(p2, Nil)} |->
                   R(Alloc(d.p), EmitStatement(d.p.nid, eventName, d.n))])
        ELSE R(addError(p1, current(p1), "expected event name after 'emit'"), Nil)

parseListenStatement(p0) ==
    LET e == expect(pAdvance(p0), "IDENTIFIER")
    IN  IF ~e.ok THEN R(e.p, Nil)
        ELSE IF ~match(e.p, {"LBRACE"})
        THEN R(addError(e.p, current(e.p), "expected '{' after event name"), Nil)
        ELSE With([h \in {parseExpression(pAdvance(e.p))} |->
               IF ~match(h.p, {"RBRACE"})
               THEN R(addError(h.p, current(h.p), "expected '}'"), Nil)
               ELSE LET q == pAdvance(h.p)
                    IN  R(Alloc(q), ListenStatement(q.nid, e.tok.Lexeme, h.n))])

parseTryStatement(p0) ==
    LET p1 == pAdvance(p0)
    IN  IF ~match(p1, {"LBRACE"})
        THEN R(addError(p1, current(p1), "expected '{' after 'try'"), Nil)
        ELSE
        With([t \in {parseBlock(pAdvance(p1))} |->
          IF match(t.p, {"CATCH"})
          THEN LET p2 == pAdvance(t.p)
                   hasParam == match(p2, {"IDENTIFIER"})
                   catchParam == IF hasParam THEN current(p2).Lexeme ELSE ""
                   p3 == IF hasParam THEN pAdvance(p2) ELSE p2
               IN  IF ~match(p3, {"LBRACE"})
                   THEN R(addError(p3, current(p3), "expected '{' after 'catch'"),
                          Nil)
                   ELSE With([c \in {parseBlock(pAdvance(p3))} |->
                          R(Alloc(c.p),
                            Statement(c.p.nid, "try-catch",
                                      [try |-> t.ns, catch |-> c.ns,
                                       catchParam |-> catchParam]))])
          ELSE R(Alloc(t.p),
                 Statement(t.p.nid, "try-catch",
                           [try |-> t.ns, catch |-> <<>>, catchParam |-> ""]))])

\* `else if` puts whatever the nested parseIfStatement returns into the
\* one-element ElseBody, a nil included
parseIfStatement(p0) ==
    With([c \in {parseExpression(pAdvance(p0))} |->
      IF IsNil(c.n)
      THEN R(addError(c.p, current(c.p), "expected condition after 'if'"), Nil)
      ELSE IF match(c.p, {"DOUBLE_COLON"})
      THEN With([s1 \in {parseStatement(pAdvance(c.p))} |->
             LET thenBody == IF IsNil(s1.n) THEN <<>> ELSE <<s1.n>>
                 p2 == skipWhile(s1.p, {"NEWLINE", "STATEMENT_END", "SEMICOLON"})
             IN  IF match(p2, {"ELSE"})
                 THEN LET p3 == pAdvance(p2)
                          p4 == IF match(p3, {"DOUBLE_COLON"}) THEN pAdvance(p3)
                                ELSE p3
                      IN  With([s2 \in {parseStatement(p4)} |->
                            R(Alloc(s2.p),
                              IfStatement(s2.p.nid, c.n, thenBody,
                                          IF IsNil(s2.n) THEN <<>> ELSE <<s2.n>>))])
                 ELSE R(Alloc(p2), IfStatement(p2.nid, c.n, thenBody, <<>>))])
      ELSE IF ~match(c.p, {"LBRACE"})
      THEN R(addError(c.p, current(c.p),
                      "expected '{' or '::' after if condition"), Nil)
      ELSE
      With([t \in {parseBlock(pAdvance(c.p))} |->
        IF match(t.p, {"ELSE"})
        THEN LET p2 == pAdvance(t.p)
             IN  IF match(p2, {"IF"})
                 THEN With([n \in {parseIfStatement(p2)} |->
                        R(Alloc(n.p),
                          IfStatement(n.p.nid, c.n, t.ns, <<n.n>>))])
                 ELSE IF match(p2, {"LBRACE"})
                 THEN With([b \in {parseBlock(pAdvance(p2))} |->
                        R(Alloc(b.p), IfStatement(b.p.nid, c.n, t.ns, b.ns))])
                 ELSE R(Alloc(p2), IfStatement(p2.nid, c.n, t.ns, <<>>))
        ELSE R(Alloc(t.p), IfStatement(t.p.nid, c.n, t.ns, <<>>))])])

parseWhileStatement(p0) ==
    With([c \in {parseExpression(pAdvance(p0))} |->
      IF IsNil(c.n)
      THEN R(addError(c.p, current(c.p), "expected condition after 'while'"), Nil)
      ELSE IF match(c.p, {"DOUBLE_COLON"})
      THEN With([s1 \in {parseStatement(pAdvance(c.p))} |->
             R(Alloc(s1.p),
               WhileStatement(s1.p.nid, c.n,
                              IF IsNil(s1.n) THEN <<>> ELSE <<s1.n>>))])
      ELSE IF ~match(c.p, {"LBRACE"})
      THEN R(addError(c.p, current(c.p),
                      "expected '{' or '::' after while condition"), Nil)
      ELSE With([b \in {parseBlock(pAdvance(c.p))} |->
             R(Alloc(b.p), WhileStatement(b.p.nid, c.n, b.ns))])])

\* the header of a `for`: [p, init, condition, update]
forHeader(p1) ==
    LET hasVar == \/ match(p1, {"IDENTIFIER"})
                  \/ isValidFieldName(current(p1).Type)
                  \/ isIOKeyword(current(p1).Type)
                  \/ isDebugKeyword(current(p1).Type)
                  \/ isAIKeyword(current(p1).Type)
        loopVar == IF hasVar THEN current(p1).Lexeme ELSE ""
        p2 == IF hasVar THEN pAdvance(p1) ELSE p1
        isInLoop == hasVar /\ match(p2, {"IDENTIFIER"}) /\ current(p2).Lexeme = "in"
    IN  IF isInLoop
        THEN LET p3 == pAdvance(p2)
             IN  With([r \in {parseExpression(Alloc(p3))} |->
                   [p |-> Alloc(r.p), init |-> Nil,
                    condition |-> BinaryOp(r.p.nid, Identifier(p3.nid, loopVar),
                                           "in", r.n),
                    update |-> Nil]])
        ELSE With([i \in {IF loopVar # "" THEN R(Alloc(p2), Identifier(p2.nid, loopVar))
                          ELSE IF ~match(p2, {"STATEMENT_END"}) THEN parseExpression(p2)
                          ELSE R(p2, Nil)} |->
               LET p3 == expect(i.p, "STATEMENT_END").p
               IN  With([c \in {IF ~match(p3, {"STATEMENT_END"}) THEN parseExpression(p3)
                                ELSE R(p3, Nil)} |->
                     LET p4 == expect(c.p, "STATEMENT_END").p
                     IN  With([u \in {IF ~match(p4, {"LBRACE", "CONCURRENT"}) THEN parseExpression(p4)
                                      ELSE R(p4, Nil)} |->
                           [p |-> u.p, init |-> i.n, condition |-> c.n, update |-> u.n]])])])

parseForStatement(p0) ==
    With([h \in {forHeader(pAdvance(p0))} |->
      LET concurrent == match(h.p, {"CONCURRENT"})
          p2 == IF concurrent THEN pAdvance(h.p) ELSE h.p
      IN  IF ~match(p2, {"LBRACE"})
          THEN R(addError(p2, current(p2), "expected '{' for for loop body"), Nil)
          ELSE With([b \in {parseBlock(pAdvance(p2))} |->
                 R(Alloc(b.p),
                   ForStatement(b.p.nid, "", h.init, h.condition, h.update, Nil,
                                b.ns, concurrent))])])

parseReturnStatement(p0) ==
    LET p1 == pAdvance(p0)
    IN  With([v \in {IF ~match(p1, {"STATEMENT_END", "NEWLINE", "RBRACE", "EOF"})
                     THEN parseExpression(p1) ELSE R(p1, Nil)} |->
          R(Alloc(v.p), ReturnStatement(v.p.nid, v.n))])

\* the field loop of parseStructDeclaration
structFieldLoop(p0, fields) ==
    IF ~match(p0, {"RBRACE"}) /\ current(p0).Type # "EOF"
    THEN LET p == skipNewlines(p0)
         IN  IF match(p, {"RBRACE"}) THEN RL(p, fields)
             ELSE LET e == expect(p, "IDENTIFIER")
                      hasColon == match(e.p, {"COLON"})
                      p2 == IF hasColon THEN pAdvance(e.p) ELSE e.p
                      hasType == hasColon
                                 /\ match(p2, {"INT_TYPE", "FLOAT_TYPE", "STR_TYPE",
                                               "BOOL_TYPE", "IDENTIFIER"})
                      p3 == IF hasType THEN pAdvance(p2) ELSE p2
                  IN  IF ~e.ok THEN RL(e.p, fields)
                      ELSE structFieldLoop(
                               skipWhile(p3, {"STATEMENT_END", "NEWLINE",
                                              "COMMENT_LINE", "COMMENT_MULTI",
                                              "COMMA"}),
                               Append(fields,
                                      Field(e.tok.Lexeme,
                                            IF hasType THEN current(p2).Lexeme
                                            ELSE "", Nil)))
    ELSE RL(p0, fields)

parseStructDeclaration(p0) ==
    LET e == expect(pAdvance(p0), "IDENTIFIER")
    IN  IF ~e.ok THEN R(e.p, Nil)
        ELSE IF ~match(e.p, {"LBRACE"})
        THEN R(addError(e.p, current(e.p), "expected '{' after struct name"), Nil)
        ELSE With([a \in {structFieldLoop(pAdvance(e.p), <<>>)} |->
               IF ~match(a.p, {"RBRACE"})
               THEN R(addError(a.p, current(a.p),
                               "expected '}' after struct body"), Nil)
               ELSE LET q == pAdvance(a.p)
                    IN  R(Alloc(q),
                          Declaration(q.nid, "struct", e.tok.Lexeme, "", Nil,
                                      <<>>, <<>>, a.ns, ""))])

parseBlockLoop(p0, statements) ==
    IF ~match(p0, {"RBRACE"}) /\ current(p0).Type # "EOF"
    THEN LET p == skipNewlines(p0)
         IN  IF match(p, {"RBRACE"}) THEN RL(p, statements)
             ELSE With([s1 \in {parseStatement(p)} |->
                    LET p2 == IF match(s1.p, {"STATEMENT_END", "NEWLINE"})
                              THEN pAdvance(s1.p) ELSE s1.p
                    IN  parseBlockLoop(p2, IF IsNil(s1.n) THEN statements
                                           ELSE Append(statements, s1.n))])
    ELSE RL(p0, statements)

parseBlock(p0) ==
    With([l \in {parseBlockLoop(p0, <<>>)} |->
      IF match(l.p, {"RBRACE"}) THEN RL(pAdvance(l.p), l.ns) ELSE l])

parseExpressionStatement(p) ==
    IF /\ match(p, {"IDENTIFIER", "BIND", "CONST", "CRAFT"})
       /\ p.pos + 1 < Len(p.tokens) /\ p.tokens[p.pos + 2].Type = "COLON"
       /\ p.pos + 2 < Len(p.tokens) /\ p.tokens[p.pos + 3].Type = "LBRACE"
    THEN With([m \in {parseMapLiteral(pAdvance(pAdvance(p)))} |->
           R(Alloc(m.p), ConfigBlock(m.p.nid, current(p).Lexeme, m.n))])
    ELSE parseExpression(p)

\* `loop foreach v in xs` / `loop parallel v in xs`: the variable, then `in`
\* (an error without it, nothing consumed), then the iterable
loopVarIn(p1) ==
    LET variable == current(p1).Lexeme
        p2 == pAdvance(p1)
        p3 == IF ~match(p2, {"IDENTIFIER"}) \/ current(p2).Lexeme # "in"
              THEN addError(p2, current(p2), "expected 'in' after loop variable")
              ELSE pAdvance(p2)
    IN  With([r \in {parseExpression(p3)} |->
          [p |-> r.p, variable |-> variable, init |-> Nil, condition |-> Nil,
           iterable |-> r.n]])

\* the header of a `loop`: [p, variable, init, condition, iterable]
loopHeader(p1) ==
    LET none == [p |-> p1, variable |-> "", init |-> Nil, condition |-> Nil,
                 iterable |-> Nil]
    IN  IF match(p1, {"WHILE"})
        THEN LET p2 == pAdvance(p1)
             IN  IF match(p2, {"IDENTIFIER"}) /\ pPeek(p2, 1).Type = "FROM"
                 THEN With([i \in {parseExpression(pAdvance(pAdvance(p2)))} |->
                        LET hasTo == match(i.p, {"IDENTIFIER"})
                                     /\ current(i.p).Lexeme = "to"
                        IN  With([c \in {IF hasTo THEN parseExpression(pAdvance(i.p))
                                         ELSE R(i.p, Nil)} |->
                              [p |-> c.p, variable |-> current(p2).Lexeme,
                               init |-> i.n, condition |-> c.n, iterable |-> Nil]])])
                 ELSE With([c \in {parseExpression(p2)} |->
                        [none EXCEPT !.p = c.p, !.condition = c.n]])
        ELSE IF match(p1, {"IDENTIFIER"})
                /\ current(p1).Lexeme \in {"foreach", "parallel"}
        THEN loopVarIn(pAdvance(p1))
        ELSE none

parseLoopStatement(p0) ==
    LET p1 == pAdvance(p0)
        concurrent == match(p1, {"IDENTIFIER"}) /\ current(p1).Lexeme = "parallel"
    IN  With([h \in {loopHeader(p1)} |->
          LET p2 == IF match(h.p, {"DOUBLE_COLON"}) THEN pAdvance(h.p) ELSE h.p
          IN  With([b \in {IF match(p2, {"LBRACE"}) THEN parseBlock(pAdvance(p2))
                           ELSE With([s1 \in {parseStatement(p2)} |->
                                  RL(s1.p, IF IsNil(s1.n) THEN <<>> ELSE <<s1.n>>)])} |->
                R(Alloc(b.p),
                  ForStatement(b.p.nid, h.variable, h.init, h.condition, Nil, h.iterable,
                               b.ns, concurrent))])])

\* A guard body that is not a block: the statement is appended unchecked
guardBody(p) ==
    IF match(p, {"LBRACE"}) THEN parseBlock(pAdvance(p))
    ELSE LET s1 == parseStatement(p) IN RL(s1.p, <<s1.n>>)

parseGuardStatement(p0) ==
    With([c \in {parseExpression(pAdvance(p0))} |->
      LET p1 == IF ~match(c.p, {"DOUBLE_COLON"})
                THEN addError(c.p, current(c.p), "expected '::' after guard condition")
                ELSE pAdvance(c.p)
      IN  With([t \in {guardBody(p1)} |->
            IF match(t.p, {"ELSE"})
            THEN LET p2 == pAdvance(t.p)
                     p3 == IF match(p2, {"DOUBLE_COLON"}) THEN pAdvance(p2) ELSE p2
                 IN  With([e \in {guardBody(p3)} |->
                       R(Alloc(e.p), IfStatement(e.p.nid, c.n, t.ns, e.ns))])
            ELSE R(Alloc(t.p), IfStatement(t.p.nid, c.n, t.ns, <<>>))])])

\* the case loop of parseMatchStatement
matchLoop(p0, cases) ==
    IF ~match(p0, {"RBRACE"}) /\ current(p0).Type # "EOF"
    THEN LET p == skipNewlines(p0)
         IN  IF match(p, {"RBRACE"}) THEN RL(p, cases)
             ELSE With([v \in {parseExpression(p)} |->
                    IF ~match(v.p, {"DOUBLE_COLON"})
                    THEN matchLoop(
                             pAdvance(addError(v.p, current(v.p),
                                               "expected '::' after match case")),
                             cases)
                    ELSE With([s1 \in {parseStatement(pAdvance(v.p))} |->
                           matchLoop(
                               skipWhile(s1.p, {"COMMA", "STATEMENT_END",
                                                "NEWLINE"}),
                               Append(cases, CaseClause(v.n, <<s1.n>>)))])])
    ELSE RL(p0, cases)

\* The `{` is looked for while the current token is still the `::`
parseMatchStatement(p0) ==
    With([x \in {parseExpression(pAdvance(p0))} |->
      IF ~match(x.p, {"DOUBLE_COLON"})
      THEN R(addError(x.p, current(x.p), "expected '::' after match expression"),
             Nil)
      ELSE IF ~match(x.p, {"LBRACE"})
      THEN R(addError(x.p, current(x.p), "expected '{' after match expression"),
             Nil)
      ELSE With([l \in {matchLoop(pAdvance(x.p), <<>>)} |->
             LET e == expect(l.p, "RBRACE")
             IN  R(Alloc(e.p), SwitchStatement(e.p.nid, x.n, l.ns, <<>>))])])

parseWatchStatement(p0) ==
    With([w \in {parseExpression(pAdvance(p0))} |->
      LET p1 == IF match(w.p, {"DOUBLE_COLON"}) THEN pAdvance(w.p) ELSE w.p
      IN  With([h \in {IF match(p1, {"LBRACE"})
                       THEN With([b \in {parseBlock(pAdvance(p1))} |->
                              R(Alloc(b.p), ArrayLiteral(b.p.nid, b.ns))])
                       ELSE IF match(p1, {"LPAREN"})
                       THEN With([t \in {parseTupleLiteral(p1)} |->
                              IF match(t.p, {"ARROW"}) THEN parseExpression(pAdvance(t.p))
                              ELSE t])
                       ELSE R(p1, Nil)} |->
            R(Alloc(h.p),
              Statement(h.p.nid, "watch", [expression |-> w.n, handler |-> h.n]))])])

parseOnStatement(p0) ==
    With([x \in {parseExpression(pAdvance(p0))} |->
      LET p1 == IF match(x.p, {"DOUBLE_COLON"}) THEN pAdvance(x.p) ELSE x.p
      IN  With([h \in {IF match(p1, {"LPAREN"})
                       THEN With([t \in {parseTupleLiteral(p1)} |->
                              IF match(t.p, {"ARROW"}) THEN parseStatement(pAdvance(t.p))
                              ELSE t])
                       ELSE parseStatement(p1)} |->
            R(Alloc(h.p),
              Statement(h.p.nid, "on", [expression |-> x.n, handler |-> h.n]))])])

parseWithStatement(p0) ==
    LET p1 == pAdvance(p0)
        p2 == IF ~match(p1, {"CONTEXT"})
              THEN addError(p1, current(p1), "expected 'context' after 'with'")
              ELSE pAdvance(p1)
    IN  With([c \in {IF match(p2, {"LBRACE"}) THEN parseMapLiteral(p2) ELSE R(p2, Nil)} |->
          LET p3 == IF match(c.p, {"DOUBLE_COLON"}) THEN pAdvance(c.p) ELSE c.p
          IN  With([b \in {IF match(p3, {"LBRACE"}) THEN parseBlock(pAdvance(p3)) ELSE RL(p3, <<>>)} |->
                R(Alloc(b.p),
                  Statement(b.p.nid, "with", [context |-> c.n, body |-> b.ns]))])])

parseSnapshotStatement(p0) ==
    With([src \in {parseExpression(pAdvance(p0))} |->
      With([t \in {IF match(src.p, {"ARROW"}) THEN parseExpression(pAdvance(src.p))
                   ELSE R(Alloc(src.p), Literal(src.p.nid, "string", ""))} |->
        R(Alloc(t.p),
          Statement(t.p.nid, "snapshot", [source |-> src.n, target |-> t.n]))])])

parseRestoreStatement(p0) ==
    With([t \in {parseExpression(pAdvance(p0))} |->
      LET p1 == IF ~match(t.p, {"FROM"})
                THEN addError(t.p, current(t.p), "expected 'from' in restore statement")
                ELSE pAdvance(t.p)
      IN  With([src \in {parseExpression(p1)} |->
            R(Alloc(src.p),
              Statement(src.p.nid, "restore", [source |-> src.n, target |-> t.n]))])])

parseStatement(p0) ==
    LET p == skipNewlines(p0)
        t == current(p).Type
    IN  CASE t = "EOF" -> R(p, Nil)
          [] t = "DECORATOR" -> parseDecoratorStatement(p)
          [] t = "ALLOW" -> parseAllowStatement(p)
          [] t = "AT_AGENT" -> parseAgentDeclaration(p)
          [] t = "TASK" -> parseTaskDeclaration(p)
          [] t = "LOOP" -> parseLoopStatement(p)
          [] t = "GUARD" -> parseGuardStatement(p)
          [] t = "MATCH" -> parseMatchStatement(p)
          [] t = "WATCH" -> parseWatchStatement(p)
          [] t \in {"BIND", "CONST", "CRAFT"} -> parseDeclaration(p)
          [] t \in {"INT_TYPE", "FLOAT_TYPE", "STR_TYPE", "BOOL_TYPE"} ->
                 parseTypedDeclaration(p)
          [] t = "FN" -> parseFunctionDeclaration(p)
          [] t = "IF" -> parseIfStatement(p)
          [] t = "WHILE" -> parseWhileStatement(p)
          [] t = "FOR" -> parseForStatement(p)
          [] t = "SWITCH" -> parseSwitchStatement(p)
          [] t = "RETURN" -> parseReturnStatement(p)
          [] t = "STRUCT" -> parseStructDeclaration(p)
          [] t = "ASYNC" -> parseAsyncStatement(p)
          [] t = "AWAIT" -> parseAwaitExpression(p)
          [] t = "EMIT" -> parseEmitStatement(p)
          [] t = "LISTEN" -> parseListenStatement(p)
          [] t = "TRY" -> parseTryStatement(p)
          [] t = "ON" -> parseOnStatement(p)
          [] t = "WITH" -> parseWithStatement(p)
          [] t = "SNAPSHOT" -> parseSnapshotStatement(p)
          [] t = "RESTORE" -> parseRestoreStatement(p)
          [] OTHER -> parseExpressionStatement(p)

\* An iteration that returns to the token it started at when parseStatement
\* returns nil
ParseIterationRewinding(p0, statements) ==
    LET p1 == skipNewlines(p0)
    IN  IF current(p1).Type = "EOF"
        THEN [p |-> p1, statements |-> statements, ran |-> FALSE]
        ELSE With([s1 \in {parseStatement(p1)} |->
               IF IsNil(s1.n)
               THEN [p |-> [s1.p EXCEPT !.pos = p0.pos],
                     statements |-> statements, ran |-> TRUE]
               ELSE [p |-> skipWhile(s1.p, {"STATEMENT_END", "NEWLINE",
                                            "COMMENT_LINE", "COMMENT_MULTI"}),
                     statements |-> Append(statements, s1.n),
                     ran |-> TRUE]])

\* One iteration of the loop of Parse, entered with current(p) not EOF:
\* [p, statements, ran] where ran tells whether parseStatement was reached
ParseIteration(p0, statements) ==
    LET p1 == skipNewlines(p0)
    IN  IF current(p1).Type = "EOF"
        THEN [p |-> p1, statements |-> statements, ran |-> FALSE]
        ELSE With([s1 \in {parseStatement(p1)} |->
               [p |-> skipWhile(s1.p, {"STATEMENT_END", "NEWLINE",
                                       "COMMENT_LINE", "COMMENT_MULTI"}),
                statements |-> IF IsNil(s1.n) THEN statements
                               ELSE Append(statements, s1.n),
                ran |-> TRUE]])

Program(statements) == [kind |-> "Program", Statements |-> statements]

ParseResult(prog, errors) == [Program |-> prog, Errors |-> errors, Warnings |-> <<>>]

RECURSIVE ParseLoop(_, _)
ParseLoop(p, statements) ==
    IF current(p).Type # "EOF"
    THEN LET i == ParseIteration(p, statements) IN ParseLoop(i.p, i.statements)
    ELSE ParseResult(Program(statements), p.errors)

Parse(tokens) == ParseLoop(NewParser(tokens), <<>>)

ParseFromSource(source) == Parse(Tokenize(InitialTables, source))

(***************************************************************************)
(* The shape of an AST: the fields of each node type that hold a Node and  *)
(* those that hold a []Node                                                *)
(***************************************************************************)
\* the concatenation of a sequence of sequences
RECURSIVE Flatten(_)
Flatten(ss) == IF ss = <<>> THEN <<>> ELSE Head(ss) \o Flatten(Tail(ss))

\* the []Node fields of a node, Program.Statements aside
NodeLists(n) ==
    CASE n.kind = "CallExpression" -> <<n.Arguments>>
      [] n.kind = "ArrayLiteral" -> <<n.Elements>>
      [] n.kind = "AsyncStatement" -> <<n.Body>>
      [] n.kind = "IfStatement" -> <<n.ThenBody, n.ElseBody>>
      [] n.kind \in {"WhileStatement", "ForStatement", "Declaration"} -> <<n.Body>>
      [] n.kind = "SwitchStatement" ->
           [i \in 1..Len(n.Cases) |-> n.Cases[i].Body] \o <<n.Default>>
      [] n.kind = "Statement" ->
           CASE n.Type = "decorator" -> <<n.Value.args>>
             [] n.Type = "try-catch" -> <<n.Value.try, n.Value.catch>>
             [] n.Type = "with" -> <<n.Value.body>>
             [] OTHER -> <<>>
      [] OTHER -> <<>>

\* the Node fields of a node, nil ones included
NodeFields(n) ==
    CASE n.kind = "BinaryOp" -> <<n.Left, n.Right>>
      [] n.kind = "UnaryOp" -> <<n.Operand>>
      [] n.kind = "CallExpression" -> <<n.Function>>
      [] n.kind = "MapLiteral" ->
           Flatten([i \in 1..Len(n.Pairs) |-> <<n.Pairs[i].Key, n.Pairs[i].Value>>])
      [] n.kind = "AwaitExpression" -> <<n.Expression>>
      [] n.kind = "EmitStatement" -> <<n.Data>>
      [] n.kind = "ListenStatement" -> <<n.Handler>>
      [] n.kind \in {"ConfigBlock", "ReturnStatement"} -> <<n.Value>>
      [] n.kind \in {"IfStatement", "WhileStatement"} -> <<n.Condition>>
      [] n.kind = "ForStatement" -> <<n.Init, n.Condition, n.Update, n.Iterable>>
      [] n.kind = "SwitchStatement" ->
           <<n.Expression>> \o [i \in 1..Len(n.Cases) |-> n.Cases[i].Value]
      [] n.kind = "Declaration" ->
           <<n.Value>> \o [i \in 1..Len(n.Fields) |-> n.Fields[i].Value]
      [] n.kind = "Statement" ->
           CASE n.Type \in {"watch", "on"} -> <<n.Value.expression, n.Value.handler>>
             [] n.Type = "with" -> <<n.Value.context>>
             [] n.Type \in {"snapshot", "restore"} ->
                  <<n.Value.source, n.Value.target>>
             [] OTHER -> <<>>
      [] OTHER -> <<>>

\* every place of node n that refers to a node: its Node fields, then the
\* slots of its []Node fields
Slots(n) == NodeFields(n) \o Flatten(NodeLists(n))

\* does a []Node field of some node of these trees hold a nil?
RECURSIVE HasNilEntry(_)
HasNilEntry(ns) ==
    \E i \in 1..Len(ns) :
        /\ ~IsNil(ns[i])
        /\ \/ \E k \in 1..Len(NodeLists(ns[i])) :
                  \E j \in 1..Len(NodeLists(ns[i])[k]) : IsNil(NodeLists(ns[i])[k][j])
           \/ HasNilEntry(Slots(ns[i]))

\* the addresses met on a walk of these trees, one for every reference to a
\* node: an address met twice is a node referenced from two places
RECURSIVE References(_)
References(ns) ==
    Flatten([i \in 1..Len(ns) |->
                IF IsNil(ns[i]) THEN <<>>
                ELSE <<ns[i].id>> \o References(Slots(ns[i]))])

(***************************************************************************)
(* The AST formatter.  Its result is the sequence of the lines of the      *)
(* string the code builds, each without its closing line break.  The       *)
(* box-drawing pieces of the code are written in ASCII: BranchMid is the   *)
(* tee connector, BranchLast the corner connector, Bar the vertical rule   *)
(* with three spaces and Gap four spaces.                                   *)
(***************************************************************************)
BranchMid == "|-- "
BranchLast == "+-- "
Bar == "|   "
Gap == "    "

\* token.SemanticGroups, and UNKNOWN for the types it does not list
GetSemanticGroup(t) ==
    CASE t \in {"IDENTIFIER", "INTEGER", "FLOAT", "STRING", "TRUE", "FALSE",
                "NULL", "IF", "FOR", "WHILE", "RETURN", "TRY", "CATCH",
                "BREAK", "FN", "STRUCT", "BIND", "CONST", "ASYNC", "AWAIT",
                "DECORATOR", "LOOP", "GUARD", "WATCH", "ON", "SNAPSHOT",
                "RESTORE", "CONFIG", "ASSIGN", "FAT_ARROW", "EQ", "LT", "GT",
                "LPAREN", "RPAREN", "LBRACE", "RBRACE", "LBRACKET",
                "RBRACKET", "COMMA", "COLON", "DOT", "COMMENT_LINE",
                "COMMENT_MULTI", "EOF", "ILLEGAL"} -> t
      [] t \in {"ELIF", "ELSE"} -> "IF"
      [] t = "CONTINUE" -> "BREAK"
      [] t = "CRAFT" -> "CONST"
      [] t \in {"GATHER", "EMIT", "LISTEN", "TASK", "CONCURRENT"} -> "ASYNC"
      [] t \in {"ALLOW", "PSEUDO"} -> "INTENT_DEBUG"
      [] t \in {"TRACE", "BREAKPOINT", "DEBUG", "CHECKPOINT", "LOG", "PRINT",
                "ASSERT", "CONFIGURE", "GENERATE_REPORT"} -> "IO_DEBUG"
      [] t \in {"AT_AGENT", "AT_TASK", "AT_STEP", "AT_INTENT", "AT_EXPLAIN"} ->
           "DECORATOR"
      [] t \in {"AGENT", "CORE", "MODEL", "TOOLS", "ROLE", "MODE",
                "SYS_PROMPT"} -> "AGENT_SYSTEM"
      [] t \in {"INPUT", "ACTION", "EXECUTION", "RETRY", "ENABLED", "MAX",
                "DEPENDS_ON", "OUTPUTS", "BREAKPOINTS", "ON_CONCUR_DEADLOCK",
                "ON_LOOP", "ON_TIMEOUT"} -> "CONFIG"
      [] t \in {"BIND_ASSIGN", "PLUS_ASSIGN", "MINUS_ASSIGN", "MULT_ASSIGN",
                "DIV_ASSIGN", "MOD_ASSIGN"} -> "ASSIGN"
      [] t = "NEQ" -> "EQ"
      [] t = "LTE" -> "LT"
      [] t = "GTE" -> "GT"
      [] t \in {"PLUS", "MINUS", "MULTIPLY", "DIVIDE", "MODULO", "AND", "OR",
                "NOT"} -> "OPERATOR"
      [] t = "STATEMENT_END" -> "STMT_END"
      [] OTHER -> "UNKNOWN"

getSemanticGroupForIdentifier(name) ==
    IF name \in DOMAIN Keywords THEN GetSemanticGroup(Keywords[name])
    ELSE IF name \in DOMAIN AgentSystemKeywords
         THEN GetSemanticGroup(AgentSystemKeywords[name])
         ELSE "IDENTIFIER"

RECURSIVE formatGrammarTree(_, _, _)
formatGrammarTree(node, isLast, prefix) ==
    LET connector == IF isLast THEN BranchLast ELSE BranchMid
        childPrefix == prefix \o (IF isLast THEN Gap ELSE Bar)
        n == node
        \* the connector of entry i of a list of count entries, and the
        \* prefix under it
        connectorAt(i, count) == IF i = count THEN BranchLast ELSE BranchMid
        prefixAt(i, count) == IF i = count THEN Gap ELSE Bar
        \* the lines of the nodes ns, the last drawn as the last branch
        formatList(ns, under) ==
            Flatten([i \in 1..Len(ns) |->
                        formatGrammarTree(ns[i], i = Len(ns), under)])
        optional(child) ==
            IF IsNil(child) THEN <<>> ELSE formatGrammarTree(child, TRUE, childPrefix)
    IN  CASE IsNil(node) -> <<>>
          [] n.kind = "Program" ->
               <<prefix \o connector \o "SYNTA_PROGRAM">>
               \o (IF Len(n.Statements) > 0
                   THEN <<prefix \o BranchMid \o "STMT_LIST">>
                        \o formatList(n.Statements, prefix \o Bar)
                   ELSE <<>>)
          [] n.kind = "Declaration" ->
               LET declNode == CASE n.DeclType = "agent" -> "AGENT_DECL"
                                 [] n.DeclType = "task" -> "TASK_DECL"
                                 [] n.DeclType = "fn" -> "FN_DECL"
                                 [] n.DeclType = "struct" -> "STRUCT_DECL"
                                 [] OTHER -> "DECL_STMT"
                   count == Len(n.Fields)
                   pair(i) ==
                       LET nextPrefix == childPrefix \o prefixAt(i, count)
                       IN  <<childPrefix \o connectorAt(i, count) \o "PAIR",
                             nextPrefix \o BranchMid \o "IDENTIFIER \""
                                 \o n.Fields[i].Name \o "\"">>
                           \o (IF IsNil(n.Fields[i].Value) THEN <<>>
                               ELSE formatGrammarTree(n.Fields[i].Value, TRUE,
                                                      nextPrefix))
               IN  <<prefix \o connector \o declNode,
                     childPrefix \o BranchMid \o "IDENTIFIER \"" \o n.Name \o "\"">>
                   \o Flatten([i \in 1..count |-> pair(i)])
                   \o (IF Len(n.Body) > 0
                       THEN <<childPrefix \o BranchLast \o "BLOCK">>
                            \o formatList(n.Body, childPrefix \o Gap)
                       ELSE <<>>)
          [] n.kind = "Literal" ->
               LET litType == CASE n.Type = "string" -> "STRING_LIT"
                                [] n.Type = "int" -> "INT_LIT"
                                [] n.Type = "float" -> "FLOAT_LIT"
                                [] n.Type = "bool" -> "BOOL_LIT"
                                [] n.Type = "null" -> "NULL_LIT"
                                [] OTHER -> "LITERAL"
               IN  <<prefix \o connector \o litType \o " \"" \o n.Value \o "\"">>
          [] n.kind = "Identifier" ->
               <<prefix \o connector \o getSemanticGroupForIdentifier(n.Name)
                     \o " \"" \o n.Name \o "\"">>
          [] n.kind = "BinaryOp" ->
               <<prefix \o connector \o "BINARY_EXPR",
                 childPrefix \o BranchMid \o "EXPR">>
               \o formatGrammarTree(n.Left, FALSE, childPrefix \o Bar)
               \o <<childPrefix \o BranchMid \o "OPERATOR \"" \o n.Operator \o "\"",
                    childPrefix \o BranchLast \o "EXPR">>
               \o formatGrammarTree(n.Right, TRUE, childPrefix \o Gap)
          [] n.kind = "CallExpression" ->
               <<prefix \o connector \o "CALL_EXPR",
                 childPrefix \o BranchMid \o "MEMBER_EXPR">>
               \o formatGrammarTree(n.Function, FALSE, childPrefix \o Bar)
               \o (IF Len(n.Arguments) > 0
                   THEN <<childPrefix \o BranchLast \o "ARG_LIST">>
                        \o formatList(n.Arguments, childPrefix \o Gap)
                   ELSE <<>>)
          [] n.kind = "ArrayLiteral" ->
               <<prefix \o connector \o "ARRAY_LITERAL">>
               \o formatList(n.Elements, childPrefix)
          [] n.kind = "MapLiteral" ->
               LET count == Len(n.Pairs)
                   pair(i) ==
                       LET pairPrefix == childPrefix \o prefixAt(i, count)
                       IN  <<childPrefix \o connectorAt(i, count) \o "PAIR">>
                           \o formatGrammarTree(n.Pairs[i].Key, FALSE, pairPrefix)
                           \o formatGrammarTree(n.Pairs[i].Value, TRUE, pairPrefix)
               IN  <<prefix \o connector \o "MAP_LITERAL">>
                   \o Flatten([i \in 1..count |-> pair(i)])
          [] n.kind = "IfStatement" ->
               <<prefix \o connector \o "IF_STMT",
                 childPrefix \o BranchMid \o "CONDITION">>
               \o formatGrammarTree(n.Condition, FALSE, childPrefix \o Bar)
               \o <<childPrefix \o BranchMid \o "BLOCK">>
               \o formatList(n.ThenBody, childPrefix \o Bar)
               \o (IF Len(n.ElseBody) > 0
                   THEN <<childPrefix \o BranchLast \o "ELSE_BLOCK">>
                        \o formatList(n.ElseBody, childPrefix \o Gap)
                   ELSE <<>>)
          [] n.kind = "ReturnStatement" ->
               <<prefix \o connector \o "RETURN_STMT">> \o optional(n.Value)
          [] n.kind = "AsyncStatement" ->
               <<prefix \o connector \o "ASYNC_STMT">>
               \o formatList(n.Body, childPrefix)
          [] n.kind = "AwaitExpression" ->
               <<prefix \o connector \o "AWAIT_EXPR">> \o optional(n.Expression)
          [] n.kind = "EmitStatement" ->
               <<prefix \o connector \o "EMIT_STMT",
                 childPrefix \o BranchMid \o "IDENTIFIER \"" \o n.EventName \o "\"">>
               \o optional(n.Data)
          [] n.kind = "WhileStatement" ->
               <<prefix \o connector \o "WHILE_STMT",
                 childPrefix \o BranchMid \o "CONDITION">>
               \o formatGrammarTree(n.Condition, FALSE, childPrefix \o Bar)
               \o <<childPrefix \o BranchLast \o "BLOCK">>
               \o formatList(n.Body, childPrefix \o Gap)
          [] n.kind = "ForStatement" ->
               LET part(label, child) ==
                       IF IsNil(child) THEN <<>>
                       ELSE <<childPrefix \o BranchMid \o label>>
                            \o formatGrammarTree(child, FALSE, childPrefix \o Bar)
               IN  <<prefix \o connector \o "FOR_STMT">>
                   \o part("INIT", n.Init)
                   \o part("CONDITION", n.Condition)
                   \o part("UPDATE", n.Update)
                   \o <<childPrefix \o BranchLast \o "BLOCK">>
                   \o formatList(n.Body, childPrefix \o Gap)
          [] OTHER -> <<prefix \o connector \o "STMT">>

FormatAST(node, indent) == formatGrammarTree(node, TRUE, "")

(***************************************************************************)
(* Inputs                                                                  *)
(***************************************************************************)
\* A source text written as a string, as the sequence of its characters
Chars(s) == [i \in 1..Len(s) |-> SubSeq(s, i, i)]

MaxInputLen == 3

\* One character of each class the lexer tells apart
LexAlphabet == {"a", "1", " ", "\n", "=", ":", "!", ">", "<", "\"", "~"}

ShortSources == UNION {[1..n -> LexAlphabet] : n \in 0..MaxInputLen}

SampleSources ==
    {Chars("bind x 10\nbind y := 2"),
     Chars("bind x := 10;"),
     Chars("bind x 10"),
     Chars("a = b"),
     Chars("x =: {a}"),
     Chars("a + b |> c"),
     Chars("a |> f(x)"),
     Chars("a |> b |> c"),
     Chars("a |>> b || c"),
     Chars("if a { } else if"),
     Chars("if a { b } else if c { d }"),
     Chars("guard a"),
     Chars("guard a :: b else :: c"),
     Chars("f(a, ;)"),
     Chars("[a, ;]"),
     Chars("(a, ;)"),
     Chars("match a :: { b :: c }"),
     Chars("!> note\nbind x := 1;"),
     Chars("@agent A { goal: \"g\" }"),
     Chars("fn f(a: int) -> int { return a * 2; }")}

MaxFields == 2

\* field names of an agent: identifiers, spellings of the agent/system table
\* and keywords that isValidFieldName admits
AgentFieldNames ==
    {"goal", "role", "model", "mode", "tools", "sys_prompt", "timeout", "type",
     "context", "memory", "config", "retry"}

\* the fields `name: value` of the names, each closed by a separator
RECURSIVE FieldsText(_)
FieldsText(names) ==
    IF names = <<>> THEN ""
    ELSE LET n == Len(names)
         IN  FieldsText(SubSeq(names, 1, n - 1)) \o names[n] \o ": "
                 \o (IF n % 2 = 1 THEN "1, " ELSE "\"s\"\n")

AgentSource(names) == Chars("@agent A { " \o FieldsText(names) \o "}")

AgentSources ==
    {AgentSource(names) :
        names \in UNION {[1..n -> AgentFieldNames] : n \in 0..MaxFields}}

MaxComment == 2

CommentAlphabet == {"a", " ", "\n", "!", ">"}

\* block comments, closed by `!>` or left open, alone, after `a ` and
\* before a line break and `a`
CommentSources ==
    {pre \o Chars("<!") \o body \o close \o post :
        pre \in {<<>>, Chars("a ")},
        body \in UNION {[1..n -> CommentAlphabet] : n \in 0..MaxComment},
        close \in {<<>>, Chars("!>")},
        post \in {<<>>, Chars("\na")}}

MaxString == 3

StringAlphabet == {"a", "\\", "\"", "'"}

\* a quote and up to MaxString characters, alone and after `a `
StringSources ==
    {pre \o <<quote>> \o rest :
        pre \in {<<>>, Chars("a ")},
        quote \in {"\"", "'"},
        rest \in UNION {[1..n -> StringAlphabet] : n \in 0..MaxString}}
    \cup {Chars("\"hello\""), Chars("bind s := \"abc")}

\* every spelling of the two keyword tables, spellings that differ from a
\* keyword in case or by a character, and names; alone and after `if `
Words ==
    DOMAIN Keywords \cup DOMAIN AgentSystemKeywords
    \cup {"myVar", "If", "IF", "iff", "i", "_if", "if_", "model2", "Model",
          "agent", "_", "x1"}

WordSources == {Chars(w) : w \in Words} \cup {Chars("if " \o w) : w \in Words}

MaxNumber == 3

NumberAlphabet == {"1", ".", "s", "h", "a"}

\* a digit and up to MaxNumber characters: digits, '.', time suffixes and a
\* letter that is none
NumberSources ==
    {<<d>> \o rest :
        d \in {"1", "5"},
        rest \in UNION {[1..n -> NumberAlphabet] : n \in 0..MaxNumber}}
    \cup {Chars("123"), Chars("1.5"), Chars("10m")}

\* `bind x := 10;` and the same with const, craft and `=:`
DeclSource(keyword, operator) == Chars(keyword \o " x " \o operator \o " 10;")

DeclSources ==
    {DeclSource(keyword, operator) :
        keyword \in {"bind", "const", "craft"}, operator \in {":=", "=:"}}

\* Two statements with a comment between statements: before the first,
\* after it, after the separator or after the second; at top level and in
\* the brace block of an if and of an async.  A line comment runs to the
\* end of its line
StatementTexts == {"bind x := 1", "a", "return"}

CommentTexts == {"!> c\n", "<! c !>"}

Commented(open, first, separator, second, close, comment, place) ==
    Chars(open \o (IF place = 1 THEN comment ELSE "")
               \o first \o (IF place = 2 THEN " " \o comment ELSE "")
               \o separator \o (IF place = 3 THEN comment ELSE "")
               \o second \o (IF place = 4 THEN " " \o comment ELSE "")
               \o close)

BetweenStatementSources ==
    {Commented(block[1], first, separator, second, block[2], comment, place) :
        block \in {<<"", "">>, <<"if a { ", " }">>, <<"async { ", " }">>},
        first \in StatementTexts, separator \in {"; ", "\n"},
        second \in {"bind y := 2", "b"}, comment \in CommentTexts,
        place \in 1..4}

MaxArms == 2

\* the arms of a match: a value and a one-word statement each
MatchArms == {<<"b", "c">>, <<"1", "d">>}

\* the arms `value :: statement`, each closed by a comma
RECURSIVE ArmsText(_)
ArmsText(arms) ==
    IF arms = <<>> THEN ""
    ELSE arms[1][1] \o " :: " \o arms[1][2] \o ", " \o ArmsText(Tail(arms))

\* `match a :: { value :: statement, ... }`
MatchSource(arms) == Chars("match a :: { " \o ArmsText(arms) \o "}")

MatchArmLists == UNION {[1..n -> MatchArms] : n \in 1..MaxArms}

MatchSources == {MatchSource(arms) : arms \in MatchArmLists}

\* `snapshot <expr> -> <target>`, and `snapshot <expr>` for an empty target
SnapshotSource(expr, target) ==
    Chars("snapshot " \o expr \o (IF target = "" THEN "" ELSE " -> " \o target))

SnapshotExprs == {"a", "a.b"}
SnapshotTargets == {"", "f", "\"f\""}

SnapshotSources ==
    {SnapshotSource(expr, target) :
        expr \in SnapshotExprs, target \in SnapshotTargets}

\* `for i := 0; i < 5; i++ { a }` and the same with `=:`
ForSource(operator) == Chars("for i " \o operator \o " 0; i < 5; i++ { a }")

ForSources == {ForSource(operator) : operator \in {":=", "=:"}}

\* one well-formed text of each brace-delimited construct, ending with ` }`
BraceTexts ==
    {"fn f() { a }", "if a { b }", "if a { b } else { c }", "while a { b }",
     "for x in y { b }", "async { a }", "try { a } catch { b }", "loop { a }",
     "@agent A { goal: 1 }", "task T { goal: 1 }", "struct S { x: int }",
     "switch a { case 1 { b } }", "x =: { a: 1 }"}

BraceSources == {Chars(text) : text \in BraceTexts}

\* the same texts ending before their last `}`
UnclosedSources ==
    {SubSeq(Chars(text), 1, Len(text) - 2) : text \in BraceTexts}

\* The items of a field list with errors: a well-formed field and its
\* separator, a token that names no field, and a field name with its value
\* but no `:`.  Each is <<text, name of the field it gives or "">>
FieldItems ==
    {<<"goal: 1, ", "goal">>, <<"role: 2, ", "role">>, <<"+ ", "">>,
     <<"mode 3 ", "">>}

FieldItemLists == UNION {[1..n -> FieldItems] : n \in 0..MaxFields}

\* what may stand before the closing brace: nothing, or a field name alone
FieldEndings == {"", "mode "}

RECURSIVE ItemsText(_)
ItemsText(items) ==
    IF items = <<>> THEN "" ELSE items[1][1] \o ItemsText(Tail(items))

\* `@agent A { items ending }` and `task A { items ending }`
FaultyFieldSource(head, items, ending) ==
    Chars(head \o " A { " \o ItemsText(items) \o ending \o "}")

FaultyFieldSources ==
    {FaultyFieldSource(head, items, ending) :
        head \in {"@agent", "task"}, items \in FieldItemLists,
        ending \in FieldEndings}

\* The items of a struct body: a typed field, an untyped field, a field
\* named by a keyword that isValidFieldName admits, and a token that names
\* no field.  Each is <<text, name of the field it gives or "">>
StructItems ==
    {<<"x: int, ", "x">>, <<"y, ", "y">>, <<"type: int, ", "type">>,
     <<"+ ", "">>}

StructItemLists == UNION {[1..n -> StructItems] : n \in 0..MaxFields}

\* `struct S { items }`
StructSource(items) == Chars("struct S { " \o ItemsText(items) \o "}")

StructSources == {StructSource(items) : items \in StructItemLists}

Sources ==
    ShortSources \cup SampleSources \cup AgentSources \cup CommentSources
    \cup StringSources \cup WordSources \cup NumberSources \cup DeclSources
    \cup BetweenStatementSources \cup MatchSources \cup SnapshotSources
    \cup ForSources \cup BraceSources \cup UnclosedSources
    \cup FaultyFieldSources \cup StructSources

(***************************************************************************)
(* The analysis as a state machine: ParseFromSource, one loop iteration of *)
(* Tokenize or of Parse per step                                           *)
(***************************************************************************)
Init ==
    /\ phase = "lex"
    /\ \E src \in Sources : lex = New(src)
    /\ par = NewParser(<<>>)
    /\ program = <<>>
    /\ spans = <<>>
    /\ iters = 0
    /\ shared = InitialTables
    /\ insts = <<>>

\* One iteration of the loop of Tokenize; the ghost span runs from the first
\* character after the skipped whitespace to the cursor after the iteration
LexIteration ==
    /\ phase = "lex"
    /\ lex.pos < Len(lex.input)
    /\ lex' = TokenizeIteration(shared, lex)
    /\ spans' = IF Len(lex'.tokens) > Len(lex.tokens)
                THEN Append(spans, <<skipWhitespace(lex).pos, lex'.pos>>)
                ELSE spans
    /\ iters' = iters + 1
    /\ UNCHANGED <<phase, par, program, shared, insts>>

\* The loop of Tokenize is left: the EOF token, then NewParser on the tokens
LexFinish ==
    /\ phase = "lex"
    /\ lex.pos >= Len(lex.input)
    /\ lex' = TokenizeFinish(lex)
    /\ spans' = Append(spans, <<lex.pos, lex.pos>>)
    /\ par' = NewParser(lex'.tokens)
    /\ phase' = "parse"
    /\ iters' = 0
    /\ UNCHANGED <<program, shared, insts>>

\* One iteration of the loop of Parse
ParseStep ==
    /\ phase = "parse"
    /\ current(par).Type # "EOF"
    /\ \E i \in {ParseIteration(par, program)} :
           /\ par' = i.p
           /\ program' = i.statements
    /\ iters' = iters + 1
    /\ UNCHANGED <<phase, lex, spans, shared, insts>>

\* The loop of Parse is left: the ParseResult is returned
ParseFinish ==
    /\ phase = "parse"
    /\ current(par).Type = "EOF"
    /\ phase' = "done"
    /\ UNCHANGED <<lex, par, program, spans, iters, shared, insts>>

Next == LexIteration \/ LexFinish \/ ParseStep \/ ParseFinish

Spec == Init /\ [][Next]_vars

\* the ParseResult that Parse returns in phase "done"
Result == ParseResult(Program(program), par.errors)

(***************************************************************************)
(* The parser alone, on token sequences that need not come from the lexer  *)
(***************************************************************************)
MaxTail == 2
MaxOps == 2

\* the token kinds that parseStatement dispatches on
StatementHeads ==
    {"DECORATOR", "ALLOW", "AT_AGENT", "TASK", "LOOP", "GUARD", "MATCH",
     "WATCH", "BIND", "CONST", "CRAFT", "INT_TYPE", "FN", "IF", "WHILE", "FOR",
     "SWITCH", "RETURN", "STRUCT", "ASYNC", "AWAIT", "EMIT", "LISTEN", "TRY",
     "ON", "WITH", "SNAPSHOT", "RESTORE"}

TailTokens ==
    {"IDENTIFIER", "INTEGER", "LBRACE", "RBRACE", "COLON", "DOUBLE_COLON",
     "COMMA", "STATEMENT_END", "ELSE"}

\* further token kinds that can stand where a statement is expected
OtherHeads ==
    {"LPAREN", "RPAREN", "LBRACKET", "RBRACKET", "STRING", "ILLEGAL", "NOT",
     "MINUS", "DOT", "PIPE_RIGHT", "CASE", "CATCH", "COMMENT_LINE", "NEWLINE"}

Punctuation ==
    [LBRACE |-> "{", RBRACE |-> "}", LPAREN |-> "(", RPAREN |-> ")",
     LBRACKET |-> "[", RBRACKET |-> "]", COLON |-> ":", DOUBLE_COLON |-> "::",
     COMMA |-> ",", STATEMENT_END |-> ";", IDENTIFIER |-> "a", INTEGER |-> "1",
     DECORATOR |-> "@d", AT_AGENT |-> "@agent",
     ASSIGN |-> "=:", BIND_ASSIGN |-> ":=", PLUS_ASSIGN |-> "+=",
     MINUS_ASSIGN |-> "-=", MULT_ASSIGN |-> "*=", DIV_ASSIGN |-> "/=",
     MOD_ASSIGN |-> "%=", PIPE_RIGHT |-> "|>", PIPE_PARALLEL |-> "|>>",
     OR |-> "||", AND |-> "&&", EQ |-> "==", NEQ |-> "!=", LT |-> "<",
     LTE |-> "<=", GT |-> ">", GTE |-> ">=", PLUS |-> "+", MINUS |-> "-",
     MULTIPLY |-> "*", DIVIDE |-> "/", MODULO |-> "%", NOT |-> "!",
     DOT |-> ".", STRING |-> "s", ILLEGAL |-> "~", COMMENT_LINE |-> " c",
     NEWLINE |-> "\\n"]

\* the spelling the lexer gives a token of the kind
Spelling ==
    [t \in StatementHeads \cup TailTokens \cup OtherHeads \cup DOMAIN Punctuation |->
        IF t \in DOMAIN Punctuation THEN Punctuation[t]
        ELSE CHOOSE k \in DOMAIN Keywords : Keywords[k] = t]

\* the tokens of the kinds given, on one line, closed by EOF
MkTokens(types) ==
    [i \in 1..Len(types) + 1 |->
        IF i <= Len(types) THEN Token(types[i], Spelling[types[i]], 1, i)
        ELSE Token("EOF", "", 1, i)]

\* the tokens without the closing EOF
Body(tokens) == SubSeq(tokens, 1, Len(tokens) - 1)

Tails == UNION {[1..n -> TailTokens] : n \in 0..MaxTail}

HeadTailInputs ==
    {MkTokens(<<h>> \o t) : h \in StatementHeads \cup TailTokens, t \in Tails}

\* the binary operators, loosest level first
PipelineOps == {"PIPE_RIGHT", "PIPE_PARALLEL"}
LevelOps ==
    <<AssignOps, PipelineOps, {"OR"}, {"AND"}, {"EQ", "NEQ"},
      {"LT", "LTE", "GT", "GTE"}, {"PLUS", "MINUS"},
      {"MULTIPLY", "DIVIDE", "MODULO"}>>
ExprOps == UNION {LevelOps[i] : i \in 1..Len(LevelOps)}

OperandNames == <<"a", "2", "c", "4", "e", "6">>

\* operand op operand ... operand EOF: identifiers and integer literals
\* alternate as operands
ExprTokens(ops) ==
    [i \in 1..2 * Len(ops) + 2 |->
        IF i = 2 * Len(ops) + 2 THEN Token("EOF", "", 1, i)
        ELSE IF i % 2 = 0 THEN Token(ops[i \div 2], Spelling[ops[i \div 2]], 1, i)
        ELSE IF i % 4 = 1 THEN Token("IDENTIFIER", OperandNames[(i + 1) \div 2], 1, i)
        ELSE Token("INTEGER", OperandNames[(i + 1) \div 2], 1, i)]

ExprInputs == {ExprTokens(ops) : ops \in UNION {[1..n -> ExprOps] : n \in 1..MaxOps}}

SampleTokens == {Tokenize(InitialTables, src) : src \in SampleSources}

\* token sequences that no EOF token closes
ShortTails == {t \in Tails : Len(t) <= 1}

OtherHeadInputs == {MkTokens(<<h>> \o t) : h \in OtherHeads, t \in ShortTails}

\* token sequences that no EOF token closes
UnclosedInputs ==
    {Body(MkTokens(<<h>> \o t)) :
        h \in StatementHeads \cup TailTokens \cup OtherHeads, t \in ShortTails}

\* `await a op 1`, and the same after `a *`, where parseUnary meets the await
AwaitInputs ==
    {MkTokens(<<"AWAIT", "IDENTIFIER", op, "INTEGER">>) : op \in ExprOps}
    \cup {MkTokens(<<"IDENTIFIER", "MULTIPLY", "AWAIT", "IDENTIFIER", op, "INTEGER">>) :
              op \in ExprOps}

ParseInputs ==
    {<<>>} \cup HeadTailInputs \cup OtherHeadInputs \cup UnclosedInputs
    \cup ExprInputs \cup AwaitInputs \cup SampleTokens

InitParse ==
    /\ phase = "parse"
    /\ lex = New(<<>>)
    /\ \E tokens \in ParseInputs : par = NewParser(tokens)
    /\ program = <<>>
    /\ spans = <<>>
    /\ iters = 0
    /\ shared = InitialTables
    /\ insts = <<>>

NextParse == ParseStep \/ ParseFinish

SpecParse == InitParse /\ [][NextParse]_vars

(***************************************************************************)
(* Concurrent analyses: analyzeHandler runs once per request, each run on  *)
(* a Lexer and a Parser of its own; the runs share the package tables      *)
(***************************************************************************)
NumInstances == 2

ConcSources ==
    {Chars("a"), Chars("a = b"), Chars("x =: {a}"), Chars("bind x 10"),
     Chars("if a { } else if")}

\* an analysis that has not started: lexer.New(req.Code)
NewInstance(src) ==
    [phase |-> "lex", lex |-> New(src), par |-> NewParser(<<>>), program |-> <<>>]

\* A step that records every identifier it has lexed in the keyword table
AnalysisStepCaching(tab, a) ==
    IF a.phase = "lex" /\ a.lex.pos < Len(a.lex.input)
    THEN With([l \in {TokenizeIteration(tab, a.lex)} |->
           LET last == l.tokens[Len(l.tokens)]
           IN  [a |-> [a EXCEPT !.lex = l],
              tab |-> IF l.tokens # <<>> /\ last.Type = "IDENTIFIER"
                      THEN [tab EXCEPT !.Keywords =
                               [w \in DOMAIN @ \cup {last.Lexeme} |->
                                   IF w \in DOMAIN @ THEN @[w] ELSE "IDENTIFIER"]]
                      ELSE tab]])
    ELSE IF a.phase = "lex"
    THEN LET l == TokenizeFinish(a.lex)
         IN  [a |-> [a EXCEPT !.lex = l, !.par = NewParser(l.tokens),
                               !.phase = "parse"],
              tab |-> tab]
    ELSE IF current(a.par).Type # "EOF"
    THEN With([i \in {ParseIteration(a.par, a.program)} |->
           [a |-> [a EXCEPT !.par = i.p, !.program = i.statements], tab |-> tab]])
    ELSE [a |-> [a EXCEPT !.phase = "done"], tab |-> tab]

\* One step of the analysis a that reads the tables tab: an iteration of the
\* loop of Tokenize, the end of Tokenize and NewParser, an iteration of the
\* loop of Parse, or the return of Parse.  The result holds the analysis
\* after the step and the tables after the step: no statement of the
\* packages assigns to a table
AnalysisStep(tab, a) ==
    IF a.phase = "lex" /\ a.lex.pos < Len(a.lex.input)
    THEN [a |-> [a EXCEPT !.lex = TokenizeIteration(tab, a.lex)], tab |-> tab]
    ELSE IF a.phase = "lex"
    THEN LET l == TokenizeFinish(a.lex)
         IN  [a |-> [a EXCEPT !.lex = l, !.par = NewParser(l.tokens),
                               !.phase = "parse"],
              tab |-> tab]
    ELSE IF current(a.par).Type # "EOF"
    THEN With([i \in {ParseIteration(a.par, a.program)} |->
           [a |-> [a EXCEPT !.par = i.p, !.program = i.statements], tab |-> tab]])
    ELSE [a |-> [a EXCEPT !.phase = "done"], tab |-> tab]

InitConc ==
    /\ phase = "conc"
    /\ lex = New(<<>>)
    /\ par = NewParser(<<>>)
    /\ program = <<>>
    /\ spans = <<>>
    /\ iters = 0
    /\ shared = InitialTables
    /\ \E srcs \in [1..NumInstances -> ConcSources] :
           insts = [i \in 1..NumInstances |-> NewInstance(srcs[i])]

\* the scheduler lets instance i take its next step
ConcStep(i) ==
    /\ insts[i].phase # "done"
    /\ \E s \in {AnalysisStep(shared, insts[i])} :
           /\ insts' = [insts EXCEPT ![i] = s.a]
           /\ shared' = s.tab
    /\ UNCHANGED <<phase, lex, par, program, spans, iters>>

NextConc == \E i \in 1..NumInstances : ConcStep(i)

SpecConc == InitConc /\ [][NextConc]_vars

\* what an analysis of src returns when it runs alone
Alone(src) ==
    [tokens |-> Tokenize(InitialTables, src), result |-> ParseFromSource(src)]

(***************************************************************************)
(* The Pratt parser of src/syntax-analyzer/synta-parse, which reads the    *)
(* tokens of a token file.  The model keeps what decides where the parser  *)
(* goes and what it records: the cursor, curToken, the errors and the      *)
(* debug log, and whether a statement parser returns a statement or nil.   *)
(* The expression nodes themselves decide nothing and are left out.        *)
(*                                                                         *)
(* Every cycle of calls and every loop of the parser passes an advance.    *)
(* While advance moves the cursor the parser gets on; on the last token    *)
(* advance does nothing and the same calls meet the same token again.  The *)
(* field returns of the parser is TRUE until more than MaxDepth calls and  *)
(* loop turns are nested on the last token: the bound stands for the       *)
(* recursion or the loop that never comes back to Parse.                   *)
(***************************************************************************)
MaxDepth == 8
MaxPrattLen == 3
MaxExtra == 2

PrattLevels ==
    [LOWEST |-> 1, EQUALS |-> 2, LESSGREATER |-> 3, SUM |-> 4, PRODUCT |-> 5,
     PREFIX |-> 6, CALL |-> 7, INDEX |-> 8]

precedences ==
    [EQ |-> PrattLevels.EQUALS, NEQ |-> PrattLevels.EQUALS,
     LT |-> PrattLevels.LESSGREATER, GT |-> PrattLevels.LESSGREATER,
     LTE |-> PrattLevels.LESSGREATER, GTE |-> PrattLevels.LESSGREATER,
     PLUS |-> PrattLevels.SUM, MINUS |-> PrattLevels.SUM,
     DIVIDE |-> PrattLevels.PRODUCT, MULTIPLY |-> PrattLevels.PRODUCT,
     MODULO |-> PrattLevels.PRODUCT, LPAREN |-> PrattLevels.CALL,
     LBRACKET |-> PrattLevels.INDEX, AND |-> PrattLevels.LOWEST + 1,
     OR |-> PrattLevels.LOWEST + 1]

\* the token types that New registers a prefix parse function for
prefixParseFns ==
    {"IDENTIFIER", "INTEGER", "FLOAT", "STRING", "NOT", "MINUS", "LPAREN",
     "LBRACKET"}

\* the token types that New registers an infix parse function for
infixParseFns ==
    {"PLUS", "MINUS", "DIVIDE", "MULTIPLY", "MODULO", "EQ", "NEQ", "LT", "GT",
     "LTE", "GTE", "AND", "OR", "LPAREN", "LBRACKET"}

\* The declaration of TokenType is not among the sources: the type of the
\* zero Token, which is curToken when the token list is empty, is one of
ZeroTypes == {"IDENTIFIER", "EOF"}

\* New: pos counts from 0, curToken is the first token if there is one
PrattNew(tokens, zero) ==
    [tokens |-> tokens, pos |-> 0,
     curToken |-> IF Len(tokens) > 0 THEN tokens[1] ELSE Token(zero, "", 0, 0),
     errors |-> <<>>, debugLog |-> <<>>, returns |-> TRUE]

\* advance: the cursor never leaves the last token
prattAdvance(p) ==
    IF p.pos < Len(p.tokens) - 1
    THEN [p EXCEPT !.pos = @ + 1, !.curToken = p.tokens[p.pos + 2]]
    ELSE p

peekToken(p) ==
    IF p.pos + 1 < Len(p.tokens) THEN p.tokens[p.pos + 2]
    ELSE Token("EOF", "", 0, 0)

peekPrecedence(p) ==
    IF peekToken(p).Type \in DOMAIN precedences
    THEN precedences[peekToken(p).Type] ELSE PrattLevels.LOWEST

curPrecedence(p) ==
    IF p.curToken.Type \in DOMAIN precedences
    THEN precedences[p.curToken.Type] ELSE PrattLevels.LOWEST

log(p, message) == [p EXCEPT !.debugLog = Append(@, message)]

\* ParseError.Error
ParseErrorText(tok, msg) ==
    "Line " \o ToString(tok.Line) \o ":" \o ToString(tok.Column) \o ": "
    \o msg \o " (" \o tok.Lexeme \o ")"

error(p, tok, message) ==
    log([p EXCEPT !.errors = Append(@, [Tok |-> tok, Msg |-> message])],
        "ERROR: " \o ParseErrorText(tok, message))

\* what is left of the depth d for a call or a loop turn entered with the
\* parser p: it costs nothing while the cursor can still move
Spend(p, d) == IF p.pos < Len(p.tokens) - 1 THEN d ELSE d - 1

\* the call that never returns
NoReturn(p) == [p EXCEPT !.returns = FALSE]

RECURSIVE prattParseExpression(_, _, _)
RECURSIVE prattInfixLoop(_, _, _)
RECURSIVE prattCommaLoop(_, _)
RECURSIVE parseExpressionList(_, _, _)
RECURSIVE prattParseStatement(_, _)
RECURSIVE prattParseIfStatement(_, _)
RECURSIVE prattBlockLoop(_, _)

\* the prefix parse function of curToken: parseIdentifier and the three
\* literal parsers leave the parser as it is
prattPrefix(p, d) ==
    LET t == p.curToken.Type
        \* parsePrefixExpression
        parsePrefixExpression ==
            prattParseExpression(prattAdvance(p), PrattLevels.PREFIX, d)
        parseGroupedExpression ==
            LET q == prattAdvance(
                         prattParseExpression(prattAdvance(p), PrattLevels.LOWEST, d))
            IN  IF q.curToken.Type # "RPAREN"
                THEN error(q, q.curToken, "expected ')' after grouped expression")
                ELSE q
        prattParseArrayLiteral == parseExpressionList(p, "RBRACKET", d)
    IN  CASE t \in {"NOT", "MINUS"} -> parsePrefixExpression
          [] t = "LPAREN" -> parseGroupedExpression
          [] t = "LBRACKET" -> prattParseArrayLiteral
          [] OTHER -> p

\* the infix parse function of curToken
prattInfix(p, d) ==
    LET t == p.curToken.Type
        parseInfixExpression ==
            prattParseExpression(prattAdvance(p), curPrecedence(p), d)
        parseCallExpression == parseExpressionList(p, "RPAREN", d)
        parseIndexExpression ==
            LET q == prattAdvance(
                         prattParseExpression(prattAdvance(p), PrattLevels.LOWEST, d))
            IN  IF q.curToken.Type # "RBRACKET"
                THEN error(q, q.curToken, "expected ']'")
                ELSE q
    IN  CASE t = "LPAREN" -> parseCallExpression
          [] t = "LBRACKET" -> parseIndexExpression
          [] OTHER -> parseInfixExpression

\* the loop of parseExpression: every turn moves to the token peeked at
prattInfixLoop(p, precedence, d) ==
    IF ~p.returns THEN p
    ELSE IF /\ peekToken(p).Type \notin {"SEMICOLON", "NEWLINE"}
            /\ precedence < peekPrecedence(p)
    THEN IF peekToken(p).Type \notin infixParseFns THEN p
         ELSE prattInfixLoop(prattInfix(prattAdvance(p), d), precedence, d)
    ELSE p

prattParseExpression(p, precedence, d) ==
    IF d = 0 \/ ~p.returns THEN NoReturn(p)
    ELSE IF p.curToken.Type \notin prefixParseFns
    THEN error(p, p.curToken,
               "no prefix parse function for " \o p.curToken.Type)
    ELSE prattInfixLoop(prattPrefix(p, Spend(p, d)), precedence, Spend(p, d))

\* the loop of parseExpressionList: every turn moves past a comma peeked at
prattCommaLoop(p, d) ==
    IF p.returns /\ peekToken(p).Type = "COMMA"
    THEN prattCommaLoop(
             prattParseExpression(prattAdvance(prattAdvance(p)),
                                  PrattLevels.LOWEST, d), d)
    ELSE p

parseExpressionList(p, end, d) ==
    LET a == prattAdvance(p)
    IN  IF a.curToken.Type = end THEN a
        ELSE LET q == prattAdvance(
                          prattCommaLoop(
                              prattParseExpression(a, PrattLevels.LOWEST, d), d))
             IN  IF q.curToken.Type # end
                 THEN error(q, q.curToken, "expected " \o end)
                 ELSE q

\* the loop of parseFunctionParameters
RECURSIVE prattParameterLoop(_)
prattParameterLoop(p) ==
    IF peekToken(p).Type = "COMMA"
    THEN prattParameterLoop(prattAdvance(prattAdvance(p)))
    ELSE p

parseFunctionParameters(p) ==
    LET a == prattAdvance(p)
    IN  IF a.curToken.Type = "RPAREN" THEN a
        ELSE LET q == prattAdvance(prattParameterLoop(a))
             IN  IF q.curToken.Type # "RPAREN"
                 THEN error(q, q.curToken, "expected ')' after function parameters")
                 ELSE q

\* the loop of parseBlockStatement, which ends at RBRACE or EOF only
prattBlockLoop(p, d) ==
    IF d = 0 \/ ~p.returns THEN NoReturn(p)
    ELSE IF p.curToken.Type \in {"RBRACE", "EOF"} THEN p
    ELSE IF p.curToken.Type \in {"NEWLINE", "COMMENT_LINE", "COMMENT_MULTI"}
    THEN prattBlockLoop(prattAdvance(p), Spend(p, d))
    ELSE prattBlockLoop(prattAdvance(prattParseStatement(p, Spend(p, d)).p), Spend(p, d))

parseBlockStatement(p, d) == prattBlockLoop(prattAdvance(p), d)

\* the braces of a statement: p is the parser after the expression or the
\* parameters before them
prattBody(p, kind, message, d) ==
    LET a == prattAdvance(p)
    IN  IF a.curToken.Type # "LBRACE"
        THEN R(error(a, a.curToken, message), "nil")
        ELSE R(parseBlockStatement(a, d), kind)

prattParseIfStatement(p, d) ==
    IF d = 0 \/ ~p.returns THEN R(NoReturn(p), "nil")
    ELSE
    LET a == prattAdvance(
                 prattParseExpression(prattAdvance(p), PrattLevels.LOWEST, Spend(p, d)))
    IN  IF a.curToken.Type # "LBRACE"
        THEN R(error(a, a.curToken, "expected '{' after if condition"), "nil")
        ELSE LET b == parseBlockStatement(a, Spend(p, d))
             IN  IF peekToken(b).Type = "ELIF"
                 THEN R(prattParseIfStatement(prattAdvance(b), Spend(p, d)).p,
                        "IfStatement")
                 ELSE IF peekToken(b).Type = "ELSE"
                 THEN LET c == prattAdvance(prattAdvance(b))
                      IN  IF c.curToken.Type = "LBRACE"
                          THEN R(parseBlockStatement(c, Spend(p, d)), "IfStatement")
                          ELSE R(c, "IfStatement")
                 ELSE R(b, "IfStatement")

\* parseStatement with the statement parsers it dispatches to; the result
\* is the parser and the type of the statement, "nil" for none
prattParseStatement(p, d) ==
    IF d = 0 \/ ~p.returns THEN R(NoReturn(p), "nil")
    ELSE
    LET q == log(p, "Parsing statement at token: " \o p.curToken.Type)
        t == q.curToken.Type
        expression(s) == prattParseExpression(s, PrattLevels.LOWEST, Spend(p, d))
        \* parseBindStatement and parseConstStatement
        named(kind, message) ==
            LET a == prattAdvance(q)
                b == prattAdvance(a)
            IN  IF a.curToken.Type # "IDENTIFIER"
                THEN R(error(a, a.curToken, message), "nil")
                ELSE IF b.curToken.Type # "BIND_ASSIGN"
                THEN R(error(b, b.curToken, "expected ':=' after identifier"), "nil")
                ELSE R(expression(prattAdvance(b)), kind)
        parseAssignStatement ==
            R(expression(prattAdvance(prattAdvance(q))), "AssignStatement")
        prattParseReturnStatement ==
            LET a == prattAdvance(q)
            IN  IF a.curToken.Type \in {"NEWLINE", "SEMICOLON", "EOF"}
                THEN R(a, "ReturnStatement")
                ELSE R(expression(a), "ReturnStatement")
        prattParseWhileStatement ==
            prattBody(expression(prattAdvance(q)), "WhileStatement",
                      "expected '{' after while condition", Spend(p, d))
        prattParseForStatement ==
            LET a == prattAdvance(q)
                b == prattAdvance(a)
            IN  IF a.curToken.Type # "IDENTIFIER"
                THEN R(error(a, a.curToken, "expected identifier after 'for'"), "nil")
                ELSE IF b.curToken.Type # "IDENTIFIER" \/ b.curToken.Lexeme # "in"
                THEN R(error(b, b.curToken, "expected 'in' after for variable"), "nil")
                ELSE prattBody(expression(prattAdvance(b)), "ForStatement",
                               "expected '{' after for iterable", Spend(p, d))
        parseFunctionStatement ==
            LET a == prattAdvance(q)
                b == prattAdvance(a)
            IN  IF a.curToken.Type # "IDENTIFIER"
                THEN R(error(a, a.curToken, "expected function name"), "nil")
                ELSE IF b.curToken.Type # "LPAREN"
                THEN R(error(b, b.curToken, "expected '(' after function name"), "nil")
                ELSE prattBody(parseFunctionParameters(b), "FunctionStatement",
                               "expected '{' after function parameters", Spend(p, d))
        parsePrintStatement == R(expression(prattAdvance(q)), "PrintStatement")
        prattParseExpressionStatement == R(expression(q), "ExpressionStatement")
    IN  CASE t \in {"BIND", "LET"} ->
                 named("BindStatement", "expected identifier after 'bind'")
          [] t = "CONST" ->
                 named("ConstStatement", "expected identifier after 'const'")
          [] t = "RETURN" -> prattParseReturnStatement
          [] t = "IF" -> prattParseIfStatement(q, Spend(p, d))
          [] t = "WHILE" -> prattParseWhileStatement
          [] t = "FOR" -> prattParseForStatement
          [] t = "FN" -> parseFunctionStatement
          [] t = "PRINT" -> parsePrintStatement
          [] t = "IDENTIFIER" /\ peekToken(q).Type = "ASSIGN" -> parseAssignStatement
          [] OTHER -> prattParseExpressionStatement

\* One iteration of the loop of Parse on a token that is not EOF
PrattIteration(p, statements) ==
    IF p.curToken.Type \in
           {"NEWLINE", "COMMENT_LINE", "COMMENT_MULTI", "DO", "PLEASE", "MAYBE"}
    THEN [p |-> prattAdvance(p), statements |-> statements]
    ELSE With([r \in {prattParseStatement(p, MaxDepth)} |->
             IF ~r.p.returns THEN [p |-> r.p, statements |-> statements]
             ELSE IF r.n = "nil"
             THEN [p |-> prattAdvance(r.p), statements |-> statements]
             ELSE [p |-> prattAdvance(
                             log(r.p, "Parsed statement: *parser." \o r.n)),
                   statements |-> Append(statements, r.n)]])

\* the token files: every list of at most MaxPrattLen of these tokens, and
\* some programs, each with and without a closing EOF
PrattSpelling(t) ==
    CASE t = "IDENTIFIER" -> "a"
      [] t = "INTEGER" -> "1"
      [] t = "MINUS" -> "-"
      [] t = "PLUS" -> "+"
      [] t = "LPAREN" -> "("
      [] t = "RPAREN" -> ")"
      [] t = "LBRACKET" -> "["
      [] t = "RBRACKET" -> "]"
      [] t = "LBRACE" -> "{"
      [] t = "RBRACE" -> "}"
      [] t = "COMMA" -> ","
      [] t = "ASSIGN" -> "=:"
      [] t = "BIND_ASSIGN" -> ":="
      [] t = "NEWLINE" -> "\\n"
      [] t = "SEMICOLON" -> ";"
      [] t = "IN" -> "in"
      [] t = "IF" -> "if"
      [] t = "ELIF" -> "elif"
      [] t = "ELSE" -> "else"
      [] t = "WHILE" -> "while"
      [] t = "FOR" -> "for"
      [] t = "FN" -> "fn"
      [] t = "PRINT" -> "print"
      [] t = "RETURN" -> "return"
      [] t = "BIND" -> "bind"
      [] t = "CONST" -> "const"
      [] t = "DO" -> "do"
      [] t = "EOF" -> ""

\* the tokens of the kinds given on one line; IN is the identifier in
PrattTokens(types) ==
    [i \in 1..Len(types) |->
        Token(IF types[i] = "IN" THEN "IDENTIFIER" ELSE types[i],
              PrattSpelling(types[i]), 1, i)]

PrattAlphabet ==
    {"IDENTIFIER", "INTEGER", "MINUS", "LPAREN", "RPAREN", "LBRACKET",
     "LBRACE", "RBRACE", "COMMA", "ASSIGN", "NEWLINE", "IF", "RETURN", "DO",
     "EOF"}

PrattPrograms ==
    {<<"BIND", "IDENTIFIER", "BIND_ASSIGN", "INTEGER", "PLUS", "INTEGER">>,
     <<"CONST", "IDENTIFIER", "BIND_ASSIGN", "LBRACKET", "INTEGER", "COMMA",
       "INTEGER", "RBRACKET">>,
     <<"IF", "IDENTIFIER", "LBRACE", "PRINT", "INTEGER", "NEWLINE", "RBRACE",
       "ELSE", "LBRACE", "RBRACE">>,
     <<"IF", "IDENTIFIER", "LBRACE", "RBRACE", "ELIF", "IDENTIFIER", "LBRACE",
       "RBRACE">>,
     <<"WHILE", "IDENTIFIER", "LBRACE", "IDENTIFIER", "ASSIGN", "INTEGER",
       "RBRACE">>,
     <<"WHILE", "IDENTIFIER", "LBRACE", "IDENTIFIER">>,
     <<"FOR", "IDENTIFIER", "IN", "IDENTIFIER", "LBRACE", "RBRACE">>,
     <<"FN", "IDENTIFIER", "LPAREN", "IDENTIFIER", "COMMA", "IDENTIFIER",
       "RPAREN", "LBRACE", "RETURN", "IDENTIFIER", "RBRACE">>,
     <<"IDENTIFIER", "LPAREN", "INTEGER", "RPAREN", "SEMICOLON", "IDENTIFIER",
       "LBRACKET", "INTEGER", "RBRACKET">>}

TokenFiles ==
    {PrattTokens(types) :
        types \in UNION {[1..n -> PrattAlphabet] : n \in 0..MaxPrattLen}}
    \cup {PrattTokens(types) : types \in PrattPrograms}
    \cup {PrattTokens(types \o <<"EOF">>) : types \in PrattPrograms}

\* main has loaded a token file and made the parser
InitPratt ==
    /\ phase = "new"
    /\ lex = New(<<>>)
    /\ \E tokens \in TokenFiles, zero \in ZeroTypes :
           par = PrattNew(tokens, zero)
    /\ program = <<>>
    /\ spans = <<>>
    /\ iters = 0
    /\ shared = InitialTables
    /\ insts = <<>>

\* Parse is entered
PrattStart ==
    /\ phase = "new"
    /\ phase' = "pratt"
    /\ par' = log(par, "Starting parse")
    /\ UNCHANGED <<lex, program, spans, iters, shared, insts>>

\* One iteration of the loop of Parse; phase "stuck" is the iteration that
\* never ends.  The iterations are followed up to MaxExtra past the number
\* of the tokens.
PrattStep ==
    /\ phase = "pratt"
    /\ par.curToken.Type # "EOF"
    /\ iters < Len(par.tokens) + MaxExtra
    /\ \E i \in {PrattIteration(par, program)} :
           /\ par' = i.p
           /\ program' = i.statements
           /\ phase' = IF i.p.returns THEN "pratt" ELSE "stuck"
    /\ iters' = iters + 1
    /\ UNCHANGED <<lex, spans, shared, insts>>

\* The loop of Parse is left: the program, the errors and the debug log
\* are returned
PrattFinish ==
    /\ phase = "pratt"
    /\ par.curToken.Type = "EOF"
    /\ phase' = "done"
    /\ par' = log(par, "Parsing complete. " \o ToString(Len(program))
                       \o " statements parsed")
    /\ UNCHANGED <<lex, program, spans, iters, shared, insts>>

NextPratt == PrattStart \/ PrattStep \/ PrattFinish

SpecPratt == InitPratt /\ [][NextPratt]_vars

(***************************************************************************)
(* Operator expressions and the tree that a table of binary levels         *)
(* prescribes for them                                                     *)
(***************************************************************************)
\* the tokens are operand (operator operand)+ EOF, the operators among ops
IsOperatorExpression(tokens, ops) ==
    /\ Len(tokens) >= 4
    /\ Len(tokens) % 2 = 0
    /\ tokens[Len(tokens)].Type = "EOF"
    /\ \A i \in 1..Len(tokens) - 1 :
           IF i % 2 = 1 THEN tokens[i].Type \in {"IDENTIFIER", "INTEGER"}
           ELSE tokens[i].Type \in ops

\* a tree without its addresses: <<operator, left, right>>, <<name>> for an
\* identifier, <<value>> for a literal, <<"call", function, <<"args", ...>>>>,
\* <<"await", expression>>
RECURSIVE Shape(_)
Shape(n) ==
    CASE IsNil(n) -> <<>>
      [] n.kind = "BinaryOp" -> <<n.Operator, Shape(n.Left), Shape(n.Right)>>
      [] n.kind = "Identifier" -> <<n.Name>>
      [] n.kind = "Literal" -> <<n.Value>>
      [] n.kind = "CallExpression" ->
           <<"call", Shape(n.Function),
             <<"args">> \o [i \in 1..Len(n.Arguments) |-> Shape(n.Arguments[i])]>>
      [] n.kind = "AwaitExpression" -> <<"await", Shape(n.Expression)>>
      [] OTHER -> <<n.kind, <<>>>>

\* The tree of operand (operator operand)* under the levels `levels`,
\* loosest first: the expression splits at an operator of its loosest level,
\* at the first one when that level is the assignment level (it associates
\* to the right) and at the last one otherwise (it associates to the left)
RECURSIVE Group(_, _)
Group(ts, levels) ==
    IF Len(ts) = 1 THEN <<ts[1].Lexeme>>
    ELSE LET opsAt == {i \in 1..Len(ts) : i % 2 = 0}
             has(k) == \E i \in opsAt : ts[i].Type \in levels[k]
             loosest == CHOOSE k \in 1..Len(levels) :
                            has(k) /\ \A j \in 1..(k - 1) : ~has(j)
             at == {i \in opsAt : ts[i].Type \in levels[loosest]}
             k == IF levels[loosest] = AssignOps
                  THEN CHOOSE i \in at : \A j \in at : i <= j
                  ELSE CHOOSE i \in at : \A j \in at : i >= j
         IN  <<ts[k].Lexeme, Group(SubSeq(ts, 1, k - 1), levels),
               Group(SubSeq(ts, k + 1, Len(ts)), levels)>>

\* from token i on: `await name op integer`, then EOF
AwaitOperation(tokens, i) ==
    /\ Len(tokens) = i + 4
    /\ tokens[i].Type = "AWAIT"
    /\ tokens[i + 1].Type = "IDENTIFIER"
    /\ tokens[i + 2].Type \in ExprOps
    /\ tokens[i + 3].Type = "INTEGER"
    /\ tokens[i + 4].Type = "EOF"

(***************************************************************************)
(* Properties of Tokenize                                                  *)
(***************************************************************************)
\* the tokens are closed by the one EOF token they hold
EndsWithOnlyEOF(tokens) ==
    /\ Len(tokens) >= 1
    /\ \A i \in 1..Len(tokens) : (tokens[i].Type = "EOF") <=> (i = Len(tokens))

\* C1: Tokenize terminates on every input, every iteration of its loop
\* moves the cursor forward by at least one character (so that the loop runs
\* at most len(input) times), and the tokens returned hold exactly one EOF
\* token, the last one
C1_TokenizeTerminates ==
    /\ [][LexIteration => lex'.pos > lex.pos]_vars
    /\ [](lex.pos <= Len(lex.input))
    /\ [](phase = "lex" => iters <= lex.pos)
    /\ [](phase # "lex" => EndsWithOnlyEOF(lex.tokens))

\* Tokenize has returned on an input of blanks and unrecognised bytes
C1_Witness ==
    /\ phase = "parse"
    /\ Len(lex.input) = 3
    /\ {lex.input[i] : i \in 1..Len(lex.input)} = {" ", "~"}
    /\ Len(lex.tokens) >= 2

\* token s starts before token t
StartsBefore(s, t) ==
    \/ s.Line < t.Line
    \/ s.Line = t.Line /\ s.Column < t.Column

\* C3: the start positions of consecutive tokens are strictly increasing in
\* the lexicographic order of (line, column), the EOF token included, and
\* every line and every column is at least 1
C3_PositionsIncrease ==
    \A i \in 1..Len(lex.tokens) :
        /\ lex.tokens[i].Line >= 1
        /\ lex.tokens[i].Column >= 1
        /\ i > 1 => StartsBefore(lex.tokens[i - 1], lex.tokens[i])

\* Tokenize has returned tokens of two lines, with two tokens on one line
C3_Witness ==
    /\ phase = "done"
    /\ \E i \in 2..Len(lex.tokens) - 1 :
           /\ lex.tokens[i].Type = "NEWLINE"
           /\ lex.tokens[i - 1].Line = lex.tokens[i].Line
           /\ lex.tokens[i + 1].Line = lex.tokens[i].Line + 1

\* the non-blank characters of the input that lie in the span of no token
Uncovered ==
    {i \in 0..Len(lex.input) - 1 :
        /\ ~IsSpace(lex.input[i + 1])
        /\ ~\E k \in 1..Len(spans) : spans[k][1] <= i /\ i < spans[k][2]}

\* the characters that begin an identifier, a number, a string, a decorator,
\* a delimiter or an operator
TokenStarts ==
    Letters \cup Digits \cup DOMAIN singleCharOps
    \cup {"_", "\"", "'", "@", "+", "-", "*", "/", "%", "=", ":", "!", "<",
          ">", "&", "|", ".", "\n"}

\* the character at offset i begins no token: it is none of TokenStarts, or
\* it is a '=' that none of '=', ':' and '>' follows
BeginsNoToken(i) ==
    /\ i < Len(lex.input)
    /\ \/ lex.input[i + 1] \notin TokenStarts
       \/ /\ lex.input[i + 1] = "="
          /\ peek([lex EXCEPT !.pos = i], 1) \notin {"=", ":", ">"}

\* C5: once Tokenize has returned, every non-blank character of the input
\* lies in the span of an emitted token, and a token that starts at a
\* character that begins no token (a '=' without continuation included) is
\* an ILLEGAL token whose lexeme is that one character
C5_EveryCharacterInAToken ==
    phase # "lex" =>
        /\ Uncovered = {}
        /\ \A k \in 1..Len(spans) :
               BeginsNoToken(spans[k][1]) =>
                   /\ lex.tokens[k].Type = "ILLEGAL"
                   /\ lex.tokens[k].Lexeme = lex.input[spans[k][1] + 1]
                   /\ spans[k][2] = spans[k][1] + 1

(***************************************************************************)
(* Properties of Parse                                                     *)
(***************************************************************************)
\* C2: Parse terminates on every token sequence: every iteration of its
\* loop moves the parser forward by at least one token and the loop runs at
\* most len(tokens) times; it returns a Program that is not nil and the
\* list of the errors recorded
C2_ParseTerminates ==
    /\ [][ParseStep => par'.pos > par.pos]_vars
    /\ [](iters <= Len(par.tokens))
    /\ [](phase = "parse" => iters <= par.pos)
    /\ [](phase = "done" =>
             /\ ~IsNil(Result.Program)
             /\ Result.Program.Statements = program
             /\ Result.Errors = par.errors)

\* Parse has returned, after two iterations, on tokens that no EOF closes
\* and that make a statement parser fail
C2_Witness ==
    /\ phase = "done"
    /\ par.tokens # <<>>
    /\ par.tokens[Len(par.tokens)].Type # "EOF"
    /\ iters = 2
    /\ par.errors # <<>>

\* the tokens begin `bind name integer`: no operator between name and value
OmitsAssignment(tokens) ==
    /\ Len(tokens) >= 4
    /\ tokens[1].Type = "BIND"
    /\ tokens[2].Type = "IDENTIFIER"
    /\ tokens[3].Type = "INTEGER"

\* from token i on: separators and declarations `bind name := integer`, then EOF
RECURSIVE WellFormedFrom(_, _)
WellFormedFrom(tokens, i) ==
    IF i > Len(tokens) THEN FALSE
    ELSE IF tokens[i].Type = "EOF" THEN i = Len(tokens)
    ELSE IF tokens[i].Type \in {"NEWLINE", "STATEMENT_END"}
    THEN WellFormedFrom(tokens, i + 1)
    ELSE /\ i + 3 <= Len(tokens)
         /\ tokens[i].Type = "BIND"
         /\ tokens[i + 1].Type = "IDENTIFIER"
         /\ tokens[i + 2].Type = "BIND_ASSIGN"
         /\ tokens[i + 3].Type = "INTEGER"
         /\ WellFormedFrom(tokens, i + 4)

\* the well-formed declarations after the first three tokens, by the index of
\* their name
FollowingDeclarations(tokens) ==
    {i \in 5..Len(tokens) :
        /\ tokens[i - 1].Type = "BIND"
        /\ tokens[i].Type = "IDENTIFIER"
        /\ i < Len(tokens) /\ tokens[i + 1].Type = "BIND_ASSIGN"}

\* Program.Statements holds a declaration of the name with a value
Declares(name) ==
    \E k \in 1..Len(program) :
        /\ program[k].kind = "Declaration"
        /\ program[k].Name = name
        /\ ~IsNil(program[k].Value)

\* C4 as stated: `bind x 10` makes Parse return at least one ParseError, and
\* the well-formed statements that follow it are in Program.Statements
C4_MissingAssignmentReported ==
    (phase = "done" /\ OmitsAssignment(par.tokens)
                    /\ WellFormedFrom(par.tokens, 4)) =>
        /\ Len(par.errors) >= 1
        /\ \A i \in FollowingDeclarations(par.tokens) :
               Declares(par.tokens[i].Lexeme)

\* C4: `bind x 10` makes Parse return no ParseError: the assignment of a
\* declaration is optional, so that x is declared without a value and 10 is
\* an expression statement of its own; the well-formed statements that
\* follow are in Program.Statements
C4_MissingAssignmentAccepted ==
    (phase = "done" /\ OmitsAssignment(par.tokens)
                    /\ WellFormedFrom(par.tokens, 4)) =>
        /\ par.errors = <<>>
        /\ Len(program) >= 2
        /\ program[1].kind = "Declaration"
        /\ program[1].Name = par.tokens[2].Lexeme
        /\ IsNil(program[1].Value)
        /\ Shape(program[2]) = <<par.tokens[3].Lexeme>>
        /\ \A i \in FollowingDeclarations(par.tokens) :
               Declares(par.tokens[i].Lexeme)

\* Parse has returned on `bind x 10` followed by a well-formed declaration
C4_Witness ==
    /\ phase = "done"
    /\ OmitsAssignment(par.tokens)
    /\ WellFormedFrom(par.tokens, 4)
    /\ FollowingDeclarations(par.tokens) # {}

\* C6: after Parse no []Node of the AST holds a nil: not Program.Statements
\* and not a list of a node below it
C6_NoNilEntries ==
    phase = "done" =>
        /\ \A i \in 1..Len(program) : ~IsNil(program[i])
        /\ ~HasNilEntry(program)

\* C7: in the AST that Parse returns every node is referenced from exactly
\* one place: no address is met twice on a walk of the tree
C7_NoSharedNode ==
    phase = "done" =>
        LET refs == References(program)
        IN  \A i \in 1..Len(refs) : \A j \in 1..Len(refs) :
                i # j => refs[i] # refs[j]

\* the levels of the binary operators without the pipeline level
LevelsWithoutPipeline == <<LevelOps[1]>> \o SubSeq(LevelOps, 3, Len(LevelOps))

\* C9: an expression over identifiers and literals whose operators are
\* assignment, ||, &&, equality, relational, additive and multiplicative
\* operators parses without error into the one tree in which a later level
\* binds tighter than an earlier one, the operators of a level associate to
\* the left and the assignment operators, loosest of all, to the right
C9_LevelsHonoured ==
    (phase = "done" /\ IsOperatorExpression(par.tokens, ExprOps \ PipelineOps)) =>
        /\ par.errors = <<>>
        /\ Len(program) = 1
        /\ Shape(program[1]) = Group(Body(par.tokens), LevelsWithoutPipeline)

\* Parse has returned on operand - operand - operand
C9_Witness ==
    /\ phase = "done"
    /\ IsOperatorExpression(par.tokens, {"MINUS"})
    /\ Len(par.tokens) = 6
    /\ Len(program) = 1

\* the tokens are  a |> f ( x )  or  a |>> f ( x )
IsPipelineIntoCall(tokens) ==
    /\ Len(tokens) = 7
    /\ [i \in 1..7 |-> tokens[i].Type] \in
           {<<"IDENTIFIER", op, "IDENTIFIER", "LPAREN", "IDENTIFIER", "RPAREN",
              "EOF">> : op \in PipelineOps}

\* C10: the pipeline operators bind more loosely than || and every
\* comparison and arithmetic operator and associate to the left, and the
\* right operand of a pipeline into f(x) is the call
C10_PipelineLoosest ==
    phase = "done" =>
        /\ (/\ IsOperatorExpression(par.tokens, ExprOps \ AssignOps)
            /\ \E i \in 1..Len(par.tokens) : par.tokens[i].Type \in PipelineOps) =>
               /\ Len(program) = 1
               /\ Shape(program[1]) = Group(Body(par.tokens), LevelOps)
        /\ IsPipelineIntoCall(par.tokens) =>
               /\ Len(program) = 1
               /\ Shape(program[1]) =
                      <<par.tokens[2].Lexeme, <<par.tokens[1].Lexeme>>,
                        <<"call", <<par.tokens[3].Lexeme>>,
                          <<"args", <<par.tokens[5].Lexeme>>>>>>>>

(***************************************************************************)
(* Properties of concurrent analyses                                       *)
(***************************************************************************)
\* C8: the tables shared by the instances are never written, and an
\* instance that has finished holds the tokens, the Program and the errors
\* of its analysis run alone, whatever the interleaving of the steps
C8_Independent ==
    /\ shared = InitialTables
    /\ \A i \in 1..Len(insts) :
           insts[i].phase = "done" =>
               /\ insts[i].lex.tokens = Alone(insts[i].lex.input).tokens
               /\ ParseResult(Program(insts[i].program), insts[i].par.errors)
                      = Alone(insts[i].lex.input).result

\* one analysis has finished while another, on another input, is inside the
\* loop of Tokenize
C8_Witness ==
    /\ Len(insts) >= 2
    /\ insts[1].phase = "done"
    /\ insts[2].phase = "lex"
    /\ insts[2].lex.pos > 0
    /\ insts[2].lex.input # insts[1].lex.input


\* C11: await binds as a unary prefix operator, tighter than every binary
\* operator: `await a op 1` parses into the BinaryOp of op whose left operand
\* is AwaitExpression(a), and `a * await a op 1` into the BinaryOp of op
\* whose left operand is a * AwaitExpression(a)
C11_AwaitBindsTightest ==
    phase = "done" =>
        /\ AwaitOperation(par.tokens, 1) =>
               /\ Len(program) = 1
               /\ Shape(program[1]) =
                      <<par.tokens[3].Lexeme,
                        <<"await", <<par.tokens[2].Lexeme>>>>,
                        <<par.tokens[4].Lexeme>>>>
        /\ (/\ AwaitOperation(par.tokens, 3)
            /\ par.tokens[1].Type = "IDENTIFIER"
            /\ par.tokens[2].Type = "MULTIPLY") =>
               /\ Len(program) = 1
               /\ Shape(program[1]) =
                      <<par.tokens[5].Lexeme,
                        <<"*", <<par.tokens[1].Lexeme>>,
                          <<"await", <<par.tokens[4].Lexeme>>>>>>,
                        <<par.tokens[6].Lexeme>>>>

\* the tokens that a ':' follows: the field names of an agent declaration
FieldNameTokens(tokens) ==
    {k \in 1..Len(tokens) - 1 : tokens[k + 1].Type = "COLON"}

\* the text of the source that token k was made from
TokenText(k) == SubSeq(lex.input, spans[k][1] + 1, spans[k][2])

\* C12: an agent declaration whose field names are identifiers, agent/system
\* spellings or keywords of the field-name whitelist parses without error
\* into one Declaration of DeclType "agent" whose Fields are exactly the
\* fields written, in source order, each under the spelling of the source
C12_AgentFields ==
    (phase = "done" /\ lex.input \in AgentSources) =>
        /\ par.errors = <<>>
        /\ Len(program) = 1
        /\ program[1].kind = "Declaration"
        /\ program[1].DeclType = "agent"
        /\ LET names == FieldNameTokens(lex.tokens)
               fields == program[1].Fields
           IN  /\ Len(fields) = Cardinality(names)
               /\ \A k \in names :
                      LET i == Cardinality({j \in names : j <= k})
                      IN  /\ Chars(fields[i].Name) = TokenText(k)
                          /\ ~IsNil(fields[i].Value)

\* Parse has returned on an agent with a keyword field and then an
\* agent/system field
C12_Witness ==
    /\ phase = "done"
    /\ lex.input = AgentSource(<<"timeout", "role">>)
    /\ Len(program) = 1
    /\ Len(program[1].Fields) = 2

\* the character at offset i lies in a string or in a comment
InStringOrComment(i) ==
    \E k \in 1..Len(spans) :
        /\ lex.tokens[k].Type \in {"STRING", "COMMENT_LINE", "COMMENT_MULTI"}
        /\ spans[k][1] <= i /\ i < spans[k][2]

\* C13: once Tokenize has returned, every '~' of the input outside strings
\* and comments, alone or after other tokens, has made a STATEMENT_END token
C13_TildeEndsStatement ==
    phase # "lex" =>
        \A i \in 0..Len(lex.input) - 1 :
            (lex.input[i + 1] = "~" /\ ~InStringOrComment(i)) =>
                \E k \in 1..Len(spans) :
                    /\ spans[k] = <<i, i + 1>>
                    /\ lex.tokens[k].Type = "STATEMENT_END"

\* the character at offset i lies in a token that starts before it
InsideToken(i) ==
    \E k \in 1..Len(spans) : spans[k][1] < i /\ i < spans[k][2]

\* a block comment opens at offset i
OpensComment(i) ==
    /\ i + 2 <= Len(lex.input)
    /\ lex.input[i + 1] = "<"
    /\ lex.input[i + 2] = "!"
    /\ ~InsideToken(i)

\* the offsets after the opening at i at which a `!>` stands
Closings(i) ==
    {j \in i + 2..Len(lex.input) - 2 :
        lex.input[j + 1] = "!" /\ lex.input[j + 2] = ">"}

\* C14: a closed block comment is one COMMENT_MULTI token whose lexeme is the
\* text of the comment from `<!` to the first `!>`, markers included; no
\* token (no NEWLINE) is made of a line break inside it, and an input that
\* is one such comment gives [COMMENT_MULTI, EOF]
C14_ClosedCommentOneToken ==
    phase # "lex" =>
        \A i \in 0..Len(lex.input) - 1 :
            (OpensComment(i) /\ Closings(i) # {}) =>
                LET end == 2 + CHOOSE j \in Closings(i) :
                                   \A h \in Closings(i) : j <= h
                IN  /\ \E k \in 1..Len(spans) :
                           /\ spans[k] = <<i, end>>
                           /\ lex.tokens[k].Type = "COMMENT_MULTI"
                           /\ Chars(lex.tokens[k].Lexeme)
                                  = SubSeq(lex.input, i + 1, end)
                    /\ \A k \in 1..Len(spans) :
                           ~(i < spans[k][1] /\ spans[k][1] < end)
                    /\ (i = 0 /\ end = Len(lex.input)) =>
                           /\ Len(lex.tokens) = 2
                           /\ lex.tokens[2].Type = "EOF"

\* Tokenize has returned on a closed comment of two lines
C14_Witness ==
    /\ phase # "lex"
    /\ lex.input = Chars("<!a\n!>")
    /\ Len(lex.tokens) = 2
    /\ lex.tokens[1].Type = "COMMENT_MULTI"

\* C15: a block comment that is never closed takes the rest of the input
\* and is one COMMENT_MULTI token that only EOF follows; no ILLEGAL token is
\* made of it, and an input that begins with it gives exactly two tokens
C15_UnclosedCommentToEnd ==
    phase # "lex" =>
        \A i \in 0..Len(lex.input) - 1 :
            (OpensComment(i) /\ Closings(i) = {}) =>
                /\ \E k \in 1..Len(spans) :
                       /\ spans[k] = <<i, Len(lex.input)>>
                       /\ lex.tokens[k].Type = "COMMENT_MULTI"
                       /\ k = Len(lex.tokens) - 1
                       /\ lex.tokens[k + 1].Type = "EOF"
                /\ \A k \in 1..Len(spans) :
                       spans[k][1] >= i => lex.tokens[k].Type # "ILLEGAL"
                /\ i = 0 => Len(lex.tokens) = 2

\* Tokenize has returned on an unclosed comment of two lines after a token
C15_Witness ==
    /\ phase # "lex"
    /\ lex.input = Chars("a <!\na")
    /\ Len(lex.tokens) = 3
    /\ lex.tokens[2].Type = "COMMENT_MULTI"

\* a string that is not triple-quoted opens at offset i
OpensString(i) ==
    /\ lex.input[i + 1] \in {"\"", "'"}
    /\ ~InsideToken(i)
    /\ ~(/\ i + 3 <= Len(lex.input)
         /\ lex.input[i + 2] = lex.input[i + 1]
         /\ lex.input[i + 3] = lex.input[i + 1])

\* the backslashes that stand immediately before offset j, after offset i
BackslashesBefore(i, j) ==
    CHOOSE n \in 0..(j - i - 1) :
        /\ \A h \in 1..n : lex.input[j - h + 1] = "\\"
        /\ n < j - i - 1 => lex.input[j - n] # "\\"

\* the offsets after the opening at i of a quote of the same kind that no
\* backslash escapes: an even number of backslashes stands before it
ClosingQuotes(i) ==
    {j \in i + 1..Len(lex.input) - 1 :
        /\ lex.input[j + 1] = lex.input[i + 1]
        /\ BackslashesBefore(i, j) % 2 = 0}

\* C16: the lexeme of a string that is not triple-quoted is the text
\* between the opening quote and the first later quote of the same kind
\* that is not escaped, escapes kept as written; without such a quote it is
\* the text up to the end of the input, EOF is the next token and no ILLEGAL
\* token is made of it
C16_StringLexeme ==
    phase # "lex" =>
        \A i \in 0..Len(lex.input) - 1 :
            OpensString(i) =>
                LET closed == ClosingQuotes(i) # {}
                    last == IF closed
                            THEN CHOOSE j \in ClosingQuotes(i) :
                                     \A h \in ClosingQuotes(i) : j <= h
                            ELSE Len(lex.input)
                IN  \E k \in 1..Len(spans) :
                        /\ spans[k][1] = i
                        /\ lex.tokens[k].Type = "STRING"
                        /\ Chars(lex.tokens[k].Lexeme)
                               = SubSeq(lex.input, i + 2, last)
                        /\ spans[k][2] = IF closed THEN last + 1 ELSE last
                        /\ ~closed =>
                               /\ k = Len(lex.tokens) - 1
                               /\ lex.tokens[k + 1].Type = "EOF"
                               /\ \A h \in k..Len(lex.tokens) :
                                      lex.tokens[h].Type # "ILLEGAL"

\* Tokenize has returned on a string that holds an escaped quote
C16_Witness ==
    /\ phase # "lex"
    /\ lex.input = <<"\"", "\\", "\"", "\"">>
    /\ lex.tokens[1].Type = "STRING"
    /\ Len(lex.tokens) = 2

IsIdentChar(ch) == IsLetter(ch) \/ IsDigit(ch) \/ ch = "_"

\* the end of the maximal run of letters, digits and '_' that starts at
\* offset i
RunEnd(i) ==
    CHOOSE e \in i + 1..Len(lex.input) :
        /\ \A h \in i + 1..e : IsIdentChar(lex.input[h])
        /\ e < Len(lex.input) => ~IsIdentChar(lex.input[e + 1])

\* C17: a run of letters, digits and '_' that starts with a letter or '_'
\* (outside strings, comments, decorators and numbers) is one token whose
\* kind is the entry of the keyword table for its exact spelling, and
\* IDENTIFIER without an entry; no spelling of the agent/system table has an
\* entry in the keyword table, so that each of them is an IDENTIFIER
C17_KeywordLookup ==
    /\ DOMAIN AgentSystemKeywords \cap DOMAIN Keywords = {}
    /\ Keywords["if"] = "IF"
    /\ phase # "lex" =>
           \A i \in 0..Len(lex.input) - 1 :
               ((IsLetter(lex.input[i + 1]) \/ lex.input[i + 1] = "_")
                   /\ ~InsideToken(i)) =>
                   \E k \in 1..Len(spans) :
                       LET word == lex.tokens[k].Lexeme
                       IN  /\ spans[k] = <<i, RunEnd(i)>>
                           /\ Chars(word) = SubSeq(lex.input, i + 1, RunEnd(i))
                           /\ word \in DOMAIN Keywords =>
                                  lex.tokens[k].Type = Keywords[word]
                           /\ word \notin DOMAIN Keywords =>
                                  lex.tokens[k].Type = "IDENTIFIER"
                           /\ word \in DOMAIN AgentSystemKeywords =>
                                  lex.tokens[k].Type = "IDENTIFIER"

\* Tokenize has returned on `if sys_prompt`
C17_Witness ==
    /\ phase # "lex"
    /\ lex.input = Chars("if sys_prompt")
    /\ Len(lex.tokens) = 3
    /\ lex.tokens[1].Type = "IF"
    /\ lex.tokens[2].Lexeme = "sys_prompt"

\* the end of the maximal run of digits that starts at offset i; i when no
\* digit stands there
DigitsEnd(i) ==
    CHOOSE e \in i..Len(lex.input) :
        /\ \A h \in i + 1..e : IsDigit(lex.input[h])
        /\ e < Len(lex.input) => ~IsDigit(lex.input[e + 1])

\* a '.' and then a digit stand at offset i
FractionAt(i) ==
    /\ i + 2 <= Len(lex.input)
    /\ lex.input[i + 1] = "."
    /\ IsDigit(lex.input[i + 2])

\* C18: text that starts with a digit gives one number token: the maximal
\* run of digits, then '.' and the digits after it only when a digit follows
\* the '.', then at most one s, m or h; it is a FLOAT exactly when the
\* fraction was taken and an INTEGER otherwise, so that the '.' of `1.` is
\* left to be a DOT token
C18_NumberLexeme ==
    phase # "lex" =>
        \A i \in 0..Len(lex.input) - 1 :
            (IsDigit(lex.input[i + 1]) /\ ~InsideToken(i)) =>
                LET whole == DigitsEnd(i)
                    digits == IF FractionAt(whole) THEN DigitsEnd(whole + 1)
                              ELSE whole
                    end == IF /\ digits < Len(lex.input)
                              /\ lex.input[digits + 1] \in {"s", "m", "h"}
                           THEN digits + 1 ELSE digits
                IN  \E k \in 1..Len(spans) :
                        /\ spans[k] = <<i, end>>
                        /\ Chars(lex.tokens[k].Lexeme)
                               = SubSeq(lex.input, i + 1, end)
                        /\ lex.tokens[k].Type =
                               IF FractionAt(whole) THEN "FLOAT" ELSE "INTEGER"
                        /\ (end < Len(lex.input) /\ lex.input[end + 1] = ".") =>
                               /\ lex.tokens[k + 1].Type = "DOT"
                               /\ spans[k + 1] = <<end, end + 1>>

\* Tokenize has returned on `1.`: an INTEGER and a DOT
C18_Witness ==
    /\ phase # "lex"
    /\ lex.input = Chars("1.")
    /\ Len(lex.tokens) = 3
    /\ lex.tokens[1].Type = "INTEGER"
    /\ lex.tokens[2].Type = "DOT"

\* the kinds and the lexemes of the tokens
KindsAndLexemes(tokens) ==
    [i \in 1..Len(tokens) |-> <<tokens[i].Type, tokens[i].Lexeme>>]

\* C19: `bind x := 10;` tokenizes to BIND, IDENTIFIER x, BIND_ASSIGN,
\* INTEGER 10, STATEMENT_END, EOF and parses without error into one
\* statement, the Declaration of x with DeclType bind and the int literal 10
\* as Value; likewise with const and craft (the token and the DeclType of
\* that keyword) and with `=:` (the ASSIGN token) for `:=`
C19_SimpleDeclaration ==
    \A keyword \in {"bind", "const", "craft"}, operator \in {":=", "=:"} :
        lex.input = DeclSource(keyword, operator) =>
            /\ phase # "lex" =>
                   KindsAndLexemes(lex.tokens) =
                       <<<<CASE keyword = "bind" -> "BIND"
                             [] keyword = "const" -> "CONST"
                             [] keyword = "craft" -> "CRAFT", keyword>>,
                         <<"IDENTIFIER", "x">>,
                         <<IF operator = ":=" THEN "BIND_ASSIGN" ELSE "ASSIGN",
                           operator>>,
                         <<"INTEGER", "10">>,
                         <<"STATEMENT_END", ";">>,
                         <<"EOF", "">>>>
            /\ phase = "done" =>
                   /\ par.errors = <<>>
                   /\ Len(program) = 1
                   /\ program[1].kind = "Declaration"
                   /\ program[1].DeclType = keyword
                   /\ program[1].Name = "x"
                   /\ program[1].Type = ""
                   /\ program[1].Value.kind = "Literal"
                   /\ program[1].Value.Type = "int"
                   /\ program[1].Value.Value = "10"

\* Parse has returned on `craft x =: 10;`
C19_Witness ==
    /\ phase = "done"
    /\ lex.input = DeclSource("craft", "=:")
    /\ Len(program) = 1
    /\ ~IsNil(program[1].Value)

\* the tokens without the comment tokens
RECURSIVE WithoutComments(_)
WithoutComments(tokens) ==
    IF tokens = <<>> THEN <<>>
    ELSE IF Head(tokens).Type \in {"COMMENT_LINE", "COMMENT_MULTI"}
    THEN WithoutComments(Tail(tokens))
    ELSE <<Head(tokens)>> \o WithoutComments(Tail(tokens))

\* C20: a line or block comment between statements, at top level and in a
\* brace block, makes no AST node and no ParseError: Parse returns what it
\* returns without the comment tokens, and `!> note`, a line break and
\* `bind x := 1;` give one statement, the Declaration of x, and no error
C20_CommentsTransparent ==
    phase = "done" =>
        /\ lex.input = Chars("!> note\nbind x := 1;") =>
               /\ par.errors = <<>>
               /\ Len(program) = 1
               /\ program[1].kind = "Declaration"
               /\ program[1].Name = "x"
        /\ lex.input \in BetweenStatementSources =>
               LET plain == Parse(WithoutComments(lex.tokens))
               IN  plain.Errors = <<>> =>
                       /\ par.errors = <<>>
                       /\ program = plain.Program.Statements

(***************************************************************************)
(* Properties of FormatAST                                                 *)
(***************************************************************************)
\* the node variants of the data model
NodeVariants ==
    {"Program", "Declaration", "BinaryOp", "UnaryOp", "Literal", "Identifier",
     "IfStatement", "WhileStatement", "ForStatement", "SwitchStatement",
     "ReturnStatement", "ArrayLiteral", "MapLiteral", "AsyncStatement",
     "AwaitExpression", "EmitStatement", "ListenStatement", "CallExpression",
     "ConfigBlock", "Statement"}

\* the nodes met on a walk of these trees
RECURSIVE Nodes(_)
Nodes(ns) ==
    Flatten([i \in 1..Len(ns) |->
                IF IsNil(ns[i]) THEN <<>> ELSE <<ns[i]>> \o Nodes(Slots(ns[i]))])

\* C21: FormatAST gives every node of a parsed program that is one of the
\* data model's variants a first line whose label is not the fallback STMT,
\* and renders every node beneath it, so that its output has at least one
\* line for each node of the subtree
C21_EveryVariantRendered ==
    phase = "done" =>
        \A i \in 1..Len(Nodes(program)) :
            LET n == Nodes(program)[i]
                lines == FormatAST(n, 0)
            IN  /\ n.kind \in NodeVariants => lines[1] # BranchLast \o "STMT"
                /\ Len(lines) >= Len(Nodes(<<n>>))

(***************************************************************************)
(* Properties of the statement forms                                       *)
(***************************************************************************)
\* C22: a well-formed match statement parses without error into one
\* SwitchStatement on the matched expression, with one clause per arm in
\* source order, each holding the arm's value and a one-statement body
C22_MatchParses ==
    phase = "done" =>
        \A arms \in MatchArmLists :
            lex.input = MatchSource(arms) =>
                /\ par.errors = <<>>
                /\ Len(program) = 1
                /\ program[1].kind = "SwitchStatement"
                /\ Shape(program[1].Expression) = <<"a">>
                /\ Len(program[1].Cases) = Len(arms)
                /\ \A i \in 1..Len(arms) :
                       /\ Shape(program[1].Cases[i].Value) = <<arms[i][1]>>
                       /\ Len(program[1].Cases[i].Body) = 1
                       /\ Shape(program[1].Cases[i].Body[1]) = <<arms[i][2]>>

\* the tree the expression texts of the snapshot sources stand for
SnapshotShape(text) ==
    CASE text = "a" -> <<"a">>
      [] text = "a.b" -> <<".", <<"a">>, <<"b">>>>
      [] text = "f" -> <<"f">>
      [] text = "\"f\"" -> <<"f">>

\* C23: `snapshot <expr> -> <target>` parses into a Statement of type
\* snapshot whose source is the tree of <expr> and whose target is the tree
\* of <target>; the target is the empty string literal only when the source
\* text has no `->` part
C23_SnapshotTarget ==
    phase = "done" =>
        \A expr \in SnapshotExprs, target \in SnapshotTargets :
            lex.input = SnapshotSource(expr, target) =>
                /\ Len(program) = 1
                /\ program[1].kind = "Statement"
                /\ program[1].Type = "snapshot"
                /\ Shape(program[1].Value.source) = SnapshotShape(expr)
                /\ IF target = ""
                   THEN /\ program[1].Value.target.kind = "Literal"
                        /\ program[1].Value.target.Type = "string"
                        /\ program[1].Value.target.Value = ""
                   ELSE Shape(program[1].Value.target) = SnapshotShape(target)

\* C24: a three-clause for statement whose init clause assigns to an
\* identifier parses without error into one ForStatement holding the three
\* clauses and the statements of the block
C24_ThreeClauseFor ==
    phase = "done" =>
        \A operator \in {":=", "=:"} :
            lex.input = ForSource(operator) =>
                /\ par.errors = <<>>
                /\ Len(program) = 1
                /\ program[1].kind = "ForStatement"
                /\ Shape(program[1].Init) = <<operator, <<"i">>, <<"0">>>>
                /\ Shape(program[1].Condition) = <<"<", <<"i">>, <<"5">>>>
                /\ program[1].Update.kind = "UnaryOp"
                /\ program[1].Update.Operator = "++_post"
                /\ Shape(program[1].Update.Operand) = <<"i">>
                /\ Len(program[1].Body) = 1
                /\ Shape(program[1].Body[1]) = <<"a">>

\* C25: when the input ends before the closing brace of a brace-delimited
\* construct, Parse records at least one error
C25_UnclosedBraceReported ==
    phase = "done" /\ lex.input \in UnclosedSources => par.errors # <<>>

\* the names of the well-formed fields among the items, in order
RECURSIVE GoodNames(_)
GoodNames(items) ==
    IF items = <<>> THEN <<>>
    ELSE (IF items[1][2] = "" THEN <<>> ELSE <<items[1][2]>>)
         \o GoodNames(Tail(items))

\* C26: in an agent or task body whose closing brace is present, every
\* token that names no field and every field name without its `:` costs one
\* syntax error and one skipped token; the declaration is returned, and its
\* fields are the well-formed fields before and after the errors, in order
C26_FieldErrorRecovery ==
    phase = "done" =>
        \A head \in {"@agent", "task"}, items \in FieldItemLists,
           ending \in FieldEndings :
            lex.input = FaultyFieldSource(head, items, ending) =>
                /\ Len(par.errors) =
                       Len(items) - Len(GoodNames(items))
                       + (IF ending = "" THEN 0 ELSE 1)
                /\ \A i \in 1..Len(par.errors) : par.errors[i].Type = "syntax"
                /\ Len(program) = 1
                /\ program[1].kind = "Declaration"
                /\ program[1].DeclType = (IF head = "task" THEN "task" ELSE "agent")
                /\ [i \in 1..Len(program[1].Fields) |-> program[1].Fields[i].Name]
                       = GoodNames(items)

\* C27: a struct whose closing brace is present yields a Declaration of
\* type struct; its fields are those named by an identifier or by a
\* whitelisted keyword, in order, and a token that names no field costs one
\* error and one skipped token
C27_StructFieldRecovery ==
    phase = "done" =>
        \A items \in StructItemLists :
            lex.input = StructSource(items) =>
                /\ Len(par.errors) = Len(items) - Len(GoodNames(items))
                /\ Len(program) = 1
                /\ program[1].kind = "Declaration"
                /\ program[1].DeclType = "struct"
                /\ [i \in 1..Len(program[1].Fields) |-> program[1].Fields[i].Name]
                       = GoodNames(items)

(***************************************************************************)
(* Properties of the error reports                                         *)
(***************************************************************************)
\* the token types that can start a primary expression
StartsPrimary(t) ==
    \/ t \in {"IDENTIFIER", "INTEGER", "FLOAT", "STRING", "TRUE", "FALSE",
              "NULL", "LPAREN", "LBRACKET", "LBRACE", "ASYNC"}
    \/ isPrimaryKeyword(t)

\* the parser of this state with its cursor at token number pos
ParserAt(pos) == [par EXCEPT !.pos = pos]

\* C28: at a token that can start no primary expression parsePrimary appends
\* exactly one syntax error with that token's line and column, moves the
\* cursor forward by exactly one token and returns nil; the token list and
\* the earlier errors stay as they were
C28_PrimaryRecovery ==
    phase = "parse" =>
        \A pos \in 0..Len(par.tokens) :
            LET p == ParserAt(pos)
                tok == current(p)
                r == parsePrimary(p)
            IN  ~StartsPrimary(tok.Type) =>
                    /\ IsNil(r.n)
                    /\ r.p.pos = pos + 1
                    /\ r.p.tokens = p.tokens
                    /\ Len(r.p.errors) = Len(p.errors) + 1
                    /\ SubSeq(r.p.errors, 1, Len(p.errors)) = p.errors
                    /\ r.p.errors[Len(r.p.errors)].Type = "syntax"
                    /\ r.p.errors[Len(r.p.errors)].Line = tok.Line
                    /\ r.p.errors[Len(r.p.errors)].Column = tok.Column

\* Parse has returned on ` >`: parsePrimary met the `>`, reported it at its
\* position and stepped over it
C28_Witness ==
    /\ phase = "done"
    /\ lex.input = <<" ", ">">>
    /\ program = <<>>
    /\ par.errors = <<[Line |-> 1, Column |-> 2,
                       Message |-> "unexpected token: GT", Type |-> "syntax"]>>

\* C29: every error of a parse of the output of Tokenize carries the
\* position of a token of that output, with line and column at least 1
C29_ErrorsAtTokens ==
    phase \in {"parse", "done"} =>
        \A i \in 1..Len(par.errors) :
            /\ par.errors[i].Line >= 1
            /\ par.errors[i].Column >= 1
            /\ \E k \in 1..Len(par.tokens) :
                   /\ par.tokens[k].Line = par.errors[i].Line
                   /\ par.tokens[k].Column = par.errors[i].Column

(***************************************************************************)
(* Properties of the Pratt parser                                          *)
(***************************************************************************)
\* C30: Parse of the Pratt parser (synta-parse) terminates on every token
\* sequence that a token file can hold, the empty sequence and those whose
\* last token is not EOF included: every iteration of its loop returns and
\* moves the cursor forward, so the loop runs at most len(tokens) times and
\* the errors and the debug log are those of that many iterations
C30_PrattTerminates ==
    /\ [][PrattStep => (phase' = "pratt" /\ par'.pos > par.pos)]_vars
    /\ [](iters <= Len(par.tokens))

=============================================================================
